---------------------------- MODULE Spec2Model ----------------------------
(***************************************************************************)
(* Model of dlls/ntdll/locale.c: code-page and UTF-8 transcoding, the      *)
(* normalization-table cache, string normalization and the IDN codec.      *)
(*                                                                         *)
(* Buffers are sequences of numbers (bytes 0..255, code units 0..65535).   *)
(* A call's result is a record [status, reslen, out]: the returned status, *)
(* the length stored through the length pointer, and what was written to   *)
(* the destination.                                                        *)
(***************************************************************************)
EXTENDS Integers, Sequences, FiniteSets, TLC

VARIABLES
    op,           \* the entry point a client exercises
    arg,          \* its input: a record of the call's arguments
    r1,           \* result of the client's first (size query) call
    r2,           \* result of the client's second (writing) call
    cpc,          \* the client's position: "start", "sized", "done"
    nls_info,     \* static NLSTABLEINFO nls_info
    norm_tables,  \* static struct norm_table *norm_tables[16]
    views,        \* the section views NtGetNlsSectionPtr has mapped
    thr           \* the threads inside load_norm_table

vars == <<op, arg, r1, r2, cpc, nls_info, norm_tables, views, thr>>

\* the normalization cache and its threads
cacheVars == <<norm_tables, views, thr>>

NoRes == [status |-> "none", reslen |-> 0, out |-> <<>>]

Min(a, b) == IF a < b THEN a ELSE b
Max(a, b) == IF a > b THEN a ELSE b

\* every sequence over S of length 0..n
SeqUpTo(S, n) == UNION {[1..k -> S] : k \in 0..n}

(***************************************************************************)
(* UTF-16 helpers (locale_private.h)                                       *)
(***************************************************************************)
IS_HIGH_SURROGATE(ch) == ch >= 55296 /\ ch <= 56319   \* 0xd800..0xdbff
IS_LOW_SURROGATE(ch)  == ch >= 56320 /\ ch <= 57343   \* 0xdc00..0xdfff

\* get_utf16( src + i - 1, srclen, &ch ): [len, ch]; len 0 on a bad surrogate
get_utf16(src, i, srclen) ==
    IF IS_HIGH_SURROGATE(src[i])
    THEN IF srclen <= 1 THEN [len |-> 0, ch |-> 0]
         ELSE IF ~IS_LOW_SURROGATE(src[i + 1]) THEN [len |-> 0, ch |-> 0]
         ELSE [len |-> 2,
               ch |-> 65536 + ((src[i] % 1024) * 1024) + (src[i + 1] % 1024)]
    ELSE IF IS_LOW_SURROGATE(src[i]) THEN [len |-> 0, ch |-> 0]
    ELSE [len |-> 1, ch |-> src[i]]

\* put_utf16: the code units of code point ch
put_utf16(ch) ==
    IF ch >= 65536
    THEN <<55296 + ((ch - 65536) \div 1024), 56320 + ((ch - 65536) % 1024)>>
    ELSE <<ch>>

\* decode_utf8_char returns ~0 for an invalid sequence; callers only compare
\* the result with 0xffff and 0x10ffff, and 0x7fffffff stands for it here
BadChar == 2147483647

\* utf8_length[ch - 0x80]: number of continuation bytes after lead byte ch
utf8_length(ch) ==
    IF ch < 194 THEN 0          \* 0x80-0xc1
    ELSE IF ch < 224 THEN 1     \* 0xc2-0xdf
    ELSE IF ch < 240 THEN 2     \* 0xe0-0xef
    ELSE IF ch < 245 THEN 3     \* 0xf0-0xf4
    ELSE 0

utf8_mask(len) == CASE len = 0 -> 128 [] len = 1 -> 32 [] len = 2 -> 16 [] OTHER -> 8

Xor80(b) == IF b >= 128 THEN b - 128 ELSE b + 128

\* case 1 of the switch: the last continuation byte
decode_utf8_case1(src, e, res, pos) ==
    LET c == Xor80(src[e - 1]) IN
    IF c >= 64 THEN [res |-> BadChar, pos |-> pos]
    ELSE LET r == res * 64 + c IN
         IF r < 128 THEN [res |-> BadChar, pos |-> pos + 1]
         ELSE [res |-> r, pos |-> pos + 1]

\* case 2 of the switch
decode_utf8_case2(src, e, res, pos) ==
    LET c == Xor80(src[e - 2]) IN
    IF c >= 64 THEN [res |-> BadChar, pos |-> pos]
    ELSE LET r == res * 64 + c IN
         IF r >= 17408 THEN [res |-> BadChar, pos |-> pos]          \* 0x110000 >> 6
         ELSE IF r < 32 THEN [res |-> BadChar, pos |-> pos + 1]
         ELSE IF r >= 864 /\ r <= 895 THEN [res |-> BadChar, pos |-> pos + 1]
         ELSE decode_utf8_case1(src, e, r, pos + 1)

\* case 3 of the switch
decode_utf8_case3(src, e, res, pos) ==
    LET c == Xor80(src[e - 3]) IN
    IF c >= 64 THEN [res |-> BadChar, pos |-> pos]
    ELSE LET r == res * 64 + c IN
         IF r < 16 THEN [res |-> BadChar, pos |-> pos + 1]
         ELSE decode_utf8_case2(src, e, r, pos + 1)

\* decode_utf8_char( ch, &src, srcend ): pos is the index of the byte after
\* the lead byte ch, endp the index one past the last byte; [res, pos]
decode_utf8_char(ch, src, pos, endp) ==
    LET len == utf8_length(ch)
        res == ch % utf8_mask(len)
        e   == pos + len
    IN  IF e > endp THEN [res |-> BadChar, pos |-> e]
        ELSE CASE len = 3 -> decode_utf8_case3(src, e, res, pos)
               [] len = 2 -> decode_utf8_case2(src, e, res, pos)
               [] len = 1 -> decode_utf8_case1(src, e, res, pos)
               [] OTHER   -> [res |-> BadChar, pos |-> pos]

(***************************************************************************)
(* RtlUTF8ToUnicodeN                                                       *)
(***************************************************************************)
RECURSIVE UTF8ToUnicodeSizeLoop(_, _, _, _)
\* the loop of the dst == NULL branch: pos is the index of the next byte
UTF8ToUnicodeSizeLoop(src, pos, len, status) ==
    IF ~(pos < Len(src) + 1) THEN [status |-> status, len |-> len]
    ELSE LET ch == src[pos] IN
         IF ch < 128 THEN UTF8ToUnicodeSizeLoop(src, pos + 1, len + 1, status)
         ELSE LET d == decode_utf8_char(ch, src, pos + 1, Len(src) + 1) IN
              IF d.res > 1114111
              THEN UTF8ToUnicodeSizeLoop(src, d.pos, len + 1, "STATUS_SOME_NOT_MAPPED")
              ELSE IF d.res > 65535
              THEN UTF8ToUnicodeSizeLoop(src, d.pos, len + 2, status)
              ELSE UTF8ToUnicodeSizeLoop(src, d.pos, len + 1, status)

RECURSIVE UTF8ToUnicodeSizeLoop_NoPair(_, _, _, _)
\* mutant: the size pass counts one code unit for a code point above 0xffff
UTF8ToUnicodeSizeLoop_NoPair(src, pos, len, status) ==
    IF ~(pos < Len(src) + 1) THEN [status |-> status, len |-> len]
    ELSE LET ch == src[pos] IN
         IF ch < 128 THEN UTF8ToUnicodeSizeLoop_NoPair(src, pos + 1, len + 1, status)
         ELSE LET d == decode_utf8_char(ch, src, pos + 1, Len(src) + 1) IN
              UTF8ToUnicodeSizeLoop_NoPair(src, d.pos, len + 1,
                  IF d.res > 1114111 THEN "STATUS_SOME_NOT_MAPPED" ELSE status)

UTF8ToUnicodeSize_NoPair(src) ==
    LET r == UTF8ToUnicodeSizeLoop_NoPair(src, 1, 0, "STATUS_SUCCESS") IN
    [status |-> r.status, reslen |-> r.len * 2, out |-> <<>>]

\* RtlUTF8ToUnicodeN with dst == NULL
UTF8ToUnicodeSize(src) ==
    LET r == UTF8ToUnicodeSizeLoop(src, 1, 0, "STATUS_SUCCESS") IN
    [status |-> r.status, reslen |-> r.len * 2, out |-> <<>>]

RECURSIVE UTF8ToUnicodeWriteLoop(_, _, _, _, _)
\* the while loop of the writing branch: out is what dst has received,
\* cap the capacity in code units; [status, out, pos] at loop exit
UTF8ToUnicodeWriteLoop(src, pos, out, cap, status) ==
    IF ~(Len(out) < cap /\ pos < Len(src) + 1)
    THEN [status |-> status, out |-> out, pos |-> pos]
    ELSE LET ch == src[pos] IN
         IF ch < 128
         THEN UTF8ToUnicodeWriteLoop(src, pos + 1, Append(out, ch), cap, status)
         ELSE LET d == decode_utf8_char(ch, src, pos + 1, Len(src) + 1) IN
              IF d.res <= 65535
              THEN UTF8ToUnicodeWriteLoop(src, d.pos, Append(out, d.res), cap, status)
              ELSE IF d.res <= 1114111
              THEN LET u    == put_utf16(d.res)
                       out1 == Append(out, u[1])
                   IN  IF Len(out1) = cap
                       THEN [status |-> status, out |-> out1, pos |-> d.pos]
                       ELSE UTF8ToUnicodeWriteLoop(src, d.pos, Append(out1, u[2]),
                                                   cap, status)
              ELSE UTF8ToUnicodeWriteLoop(src, d.pos, Append(out, 65533), cap,
                                          "STATUS_SOME_NOT_MAPPED")

\* RtlUTF8ToUnicodeN with a destination of dstlen bytes
UTF8ToUnicodeWrite(dstlen, src) ==
    LET cap == dstlen \div 2
        r   == UTF8ToUnicodeWriteLoop(src, 1, <<>>, cap, "STATUS_SUCCESS")
    IN  [status |-> IF r.pos < Len(src) + 1 THEN "STATUS_BUFFER_TOO_SMALL"
                    ELSE r.status,
         reslen |-> Len(r.out) * 2,
         out    |-> r.out]

\* RtlUTF8ToUnicodeN( dst, dstlen, reslen, src, srclen ), src and reslen not NULL
RtlUTF8ToUnicodeN(hasDst, dstlen, src) ==
    IF ~hasDst THEN UTF8ToUnicodeSize(src) ELSE UTF8ToUnicodeWrite(dstlen, src)

(***************************************************************************)
(* RtlUnicodeToUTF8N                                                       *)
(***************************************************************************)
RECURSIVE UnicodeToUTF8SizeLoop(_, _, _, _)
\* the loop of the dst == NULL branch: i is the index of the next code unit
UnicodeToUTF8SizeLoop(src, i, len, status) ==
    IF i > Len(src) THEN [status |-> status, len |-> len]
    ELSE IF src[i] < 128 THEN UnicodeToUTF8SizeLoop(src, i + 1, len + 1, status)
    ELSE IF src[i] < 2048 THEN UnicodeToUTF8SizeLoop(src, i + 1, len + 2, status)
    ELSE LET g   == get_utf16(src, i, Len(src) - i + 1)
             val == IF g.len = 0 THEN 65533 ELSE g.ch
             st  == IF g.len = 0 THEN "STATUS_SOME_NOT_MAPPED" ELSE status
         IN  IF val < 65536
             THEN UnicodeToUTF8SizeLoop(src, i + 1, len + 3, st)
             ELSE UnicodeToUTF8SizeLoop(src, i + 2, len + 4, st)

RECURSIVE UnicodeToUTF8SizeLoop_NoSkip(_, _, _, _)
\* mutant: the size pass does not step over the low surrogate of a pair
UnicodeToUTF8SizeLoop_NoSkip(src, i, len, status) ==
    IF i > Len(src) THEN [status |-> status, len |-> len]
    ELSE IF src[i] < 128 THEN UnicodeToUTF8SizeLoop_NoSkip(src, i + 1, len + 1, status)
    ELSE IF src[i] < 2048 THEN UnicodeToUTF8SizeLoop_NoSkip(src, i + 1, len + 2, status)
    ELSE LET g   == get_utf16(src, i, Len(src) - i + 1)
             val == IF g.len = 0 THEN 65533 ELSE g.ch
             st  == IF g.len = 0 THEN "STATUS_SOME_NOT_MAPPED" ELSE status
         IN  UnicodeToUTF8SizeLoop_NoSkip(src, i + 1,
                                          len + (IF val < 65536 THEN 3 ELSE 4), st)

UnicodeToUTF8Size_NoSkip(src) ==
    LET r == UnicodeToUTF8SizeLoop_NoSkip(src, 1, 0, "STATUS_SUCCESS") IN
    [status |-> r.status, reslen |-> r.len, out |-> <<>>]

\* RtlUnicodeToUTF8N with dst == NULL
UnicodeToUTF8Size(src) ==
    LET r == UnicodeToUTF8SizeLoop(src, 1, 0, "STATUS_SUCCESS") IN
    [status |-> r.status, reslen |-> r.len, out |-> <<>>]

\* the bytes of the 2-, 3- and 4-byte encodings
Utf8Bytes2(ch) == <<192 + (ch \div 64), 128 + (ch % 64)>>
Utf8Bytes3(val) ==
    <<224 + (val \div 4096), 128 + ((val \div 64) % 64), 128 + (val % 64)>>
Utf8Bytes4(val) ==
    <<240 + (val \div 262144), 128 + ((val \div 4096) % 64),
      128 + ((val \div 64) % 64), 128 + (val % 64)>>

RECURSIVE UnicodeToUTF8WriteLoop(_, _, _, _, _)
\* the for loop of the writing branch; rem is srclen at loop exit
UnicodeToUTF8WriteLoop(src, i, out, dstlen, status) ==
    LET rem == Len(src) - i + 1
        brk == [status |-> status, out |-> out, rem |-> rem]
    IN
    IF rem = 0 THEN brk
    ELSE LET ch == src[i] IN
         IF ch < 128
         THEN IF Len(out) > dstlen - 1 THEN brk
              ELSE UnicodeToUTF8WriteLoop(src, i + 1, Append(out, ch), dstlen, status)
         ELSE IF ch < 2048
         THEN IF Len(out) > dstlen - 2 THEN brk
              ELSE UnicodeToUTF8WriteLoop(src, i + 1, out \o Utf8Bytes2(ch),
                                          dstlen, status)
         ELSE LET g   == get_utf16(src, i, rem)
                  val == IF g.len = 0 THEN 65533 ELSE g.ch
                  st  == IF g.len = 0 THEN "STATUS_SOME_NOT_MAPPED" ELSE status
              IN  IF val < 65536
                  THEN IF Len(out) > dstlen - 3
                       THEN [status |-> st, out |-> out, rem |-> rem]
                       ELSE UnicodeToUTF8WriteLoop(src, i + 1, out \o Utf8Bytes3(val),
                                                   dstlen, st)
                  ELSE IF Len(out) > dstlen - 4
                       THEN [status |-> st, out |-> out, rem |-> rem]
                       ELSE UnicodeToUTF8WriteLoop(src, i + 2, out \o Utf8Bytes4(val),
                                                   dstlen, st)

\* RtlUnicodeToUTF8N with a destination of dstlen bytes (srclen even)
UnicodeToUTF8Write(dstlen, src) ==
    LET r == UnicodeToUTF8WriteLoop(src, 1, <<>>, dstlen, "STATUS_SUCCESS") IN
    [status |-> IF r.rem # 0 THEN "STATUS_BUFFER_TOO_SMALL" ELSE r.status,
     reslen |-> Len(r.out),
     out    |-> r.out]

\* RtlUnicodeToUTF8N( dst, dstlen, reslen, src, srclen ), src and reslen not NULL
RtlUnicodeToUTF8N(hasDst, dstlen, src) ==
    IF ~hasDst THEN UnicodeToUTF8Size(src) ELSE UnicodeToUTF8Write(dstlen, src)


(***************************************************************************)
(* Code-page tables.  A table blob is an array of USHORT; Blob(b, i) is    *)
(* word i of blob b.  Pointers into a blob are word indices, NULL is -1.   *)
(*                                                                         *)
(* Three blobs in the layout RtlInitCodePageTable parses, and the UTF-8    *)
(* sentinel:                                                               *)
(*   "sbcs"   single-byte page, no glyph table                             *)
(*   "glyph"  single-byte page with a glyph table                          *)
(*   "dbcs"   double-byte page with lead bytes 0x81 and 0x82               *)
(*   "utf8"   a blob whose code page id is CP_UTF8                         *)
(***************************************************************************)
NULL == -1

CP_UTF8 == 65001

Blobs == {"sbcs", "glyph", "dbcs", "utf8"}

HasGlyph(b) == b = "glyph"
LeadBytes(b) == IF b = "dbcs" THEN <<129, 130>> ELSE <<>>
IsLead(b, c) == \E k \in 1..Len(LeadBytes(b)) : LeadBytes(b)[k] = c
LeadIndex(b, c) == CHOOSE k \in 1..Len(LeadBytes(b)) : LeadBytes(b)[k] = c

\* the characters of the pages: single bytes, and (lead, trail) pairs
CharOfByte(b, c) ==
    IF c < 128 THEN c
    ELSE IF b = "dbcs" THEN (IF IsLead(b, c) THEN 0 ELSE 65280 + c)
    ELSE 1024 + (c - 128)
CharOfPair(b, k, t) == IF t < 64 THEN 63 ELSE 12288 + (k - 1) * 256 + t
\* the bytes of a character: one byte, or lead * 256 + trail
BytesOfChar(b, wc) ==
    IF wc < 128 THEN wc
    ELSE IF b = "dbcs"
    THEN IF wc >= 65280 + 128 /\ wc <= 65280 + 255 /\ ~IsLead(b, wc - 65280)
         THEN wc - 65280
         ELSE IF wc >= 12288 /\ wc < 12288 + 256 * Len(LeadBytes(b))
                 /\ (wc - 12288) % 256 >= 64
         THEN LeadBytes(b)[((wc - 12288) \div 256) + 1] * 256 + ((wc - 12288) % 256)
         ELSE 63
    ELSE IF wc >= 1024 /\ wc < 1024 + 128 THEN wc - 1024 + 128
    ELSE 63

\* word offsets of the parts of a blob
HdrSize == 13
GlyphFlagAt == HdrSize + 257
RangesAt(b) == IF HasGlyph(b) THEN GlyphFlagAt + 257 ELSE GlyphFlagAt + 1
WideAt(b) ==
    RangesAt(b) + 1 + (IF LeadBytes(b) # <<>> THEN 256 * (1 + Len(LeadBytes(b))) ELSE 0)

\* word i of blob b
Blob(b, i) ==
    IF i = 0 THEN HdrSize
    ELSE IF i = 1 THEN (CASE b = "utf8" -> CP_UTF8 [] b = "dbcs" -> 932
                          [] b = "glyph" -> 437 [] OTHER -> 1252)
    ELSE IF i = 2 THEN (IF b = "dbcs" THEN 2 ELSE 1)
    ELSE IF i \in 3..6 THEN 63
    ELSE IF i = 7 THEN (IF b = "dbcs" THEN 129 + 256 * 130 ELSE 0)
    ELSE IF i < HdrSize THEN 0
    ELSE IF i = HdrSize THEN WideAt(b) - HdrSize - 1
    ELSE IF i < GlyphFlagAt THEN CharOfByte(b, i - HdrSize - 1)
    ELSE IF i = GlyphFlagAt THEN (IF HasGlyph(b) THEN 256 ELSE 0)
    ELSE IF i < RangesAt(b) THEN 9786
    ELSE IF i = RangesAt(b) THEN (IF LeadBytes(b) # <<>> THEN 1 ELSE 0)
    ELSE IF i < WideAt(b)
    THEN LET j == i - RangesAt(b) - 1 IN
         IF j < 256 THEN (IF IsLead(b, j) THEN 256 * LeadIndex(b, j) ELSE 0)
         ELSE CharOfPair(b, j \div 256, j % 256)
    ELSE LET j == i - WideAt(b) IN
         IF LeadBytes(b) # <<>> THEN BytesOfChar(b, j)
         ELSE BytesOfChar(b, 2 * j) + 256 * BytesOfChar(b, 2 * j + 1)

\* byte k of the char array at word index p of blob b (little endian)
BlobByte(b, p, k) ==
    LET w == Blob(b, p + (k \div 2)) IN IF k % 2 = 0 THEN w % 256 ELSE w \div 256

\* static const CPTABLEINFO utf8_cpinfo = { CP_UTF8, 4, '?', 0xfffd, '?', '?' }
utf8_cpinfo ==
    [blob |-> "utf8", CodePage |-> CP_UTF8, MaximumCharacterSize |-> 4,
     DefaultChar |-> 63, UniDefaultChar |-> 65533,
     TransDefaultChar |-> 63, TransUniDefaultChar |-> 63,
     WideCharTable |-> NULL, MultiByteTable |-> NULL, DBCSRanges |-> NULL,
     DBCSCodePage |-> 0, DBCSOffsets |-> NULL]

\* RtlInitCodePageTable( ptr, info ) on blob b: the CPTABLEINFO it fills in
RtlInitCodePageTable(b) ==
    LET hdr_size == Blob(b, 0) IN
    IF Blob(b, 1) = CP_UTF8 THEN utf8_cpinfo
    ELSE LET p1 == hdr_size                     \* ptr += hdr_size
             p2 == p1 + 1 + 256                 \* ++ptr; ptr += 256
             p3 == IF Blob(b, p2) # 0 THEN p2 + 1 + 256 ELSE p2 + 1
         IN  [blob |-> b, CodePage |-> Blob(b, 1),
              MaximumCharacterSize |-> Blob(b, 2),
              DefaultChar |-> Blob(b, 3), UniDefaultChar |-> Blob(b, 4),
              TransDefaultChar |-> Blob(b, 5), TransUniDefaultChar |-> Blob(b, 6),
              WideCharTable |-> p1 + Blob(b, p1) + 1,
              MultiByteTable |-> p1 + 1,
              DBCSRanges |-> p3,
              DBCSCodePage |-> IF Blob(b, p3) # 0 THEN 1 ELSE 0,
              DBCSOffsets |-> IF Blob(b, p3) # 0 THEN p3 + 1 ELSE NULL]

\* info->DBCSOffsets[k], info->MultiByteTable[k], the WCHAR and the char
\* readings of info->WideCharTable[k]
DBCSOffsetsAt(info, k) == Blob(info.blob, info.DBCSOffsets + k)
MultiByteTableAt(info, k) == Blob(info.blob, info.MultiByteTable + k)
WideCharTableAt(info, k) == Blob(info.blob, info.WideCharTable + k)
WideCharTableByteAt(info, k) == BlobByte(info.blob, info.WideCharTable, k)

\* the result of a call that dereferences a null table pointer
Fault == [status |-> "ACCESS_VIOLATION", reslen |-> 0, out |-> <<>>]

(***************************************************************************)
(* Case tables.  CaseBlob(i) is word i of the case table blob handed to    *)
(* RtlInitNlsTables: two header words, the upper-case trie, the lower-case *)
(* trie.  A trie is 256 level-1 offsets, 16-entry level-2 blocks of        *)
(* offsets and 16-entry level-3 blocks of differences (mod 2^16).          *)
(***************************************************************************)
TrieSize == 400

\* level-3 blocks, by their offset in a trie: 320 all zero, 336 entries
\* 1..15, 352 entries 0..10, 368 all entries, 384 all but 7 (15 special)
TrieLeaf(off, k, d, special) ==
    CASE off = 336 -> (IF k >= 1 THEN d ELSE 0)
      [] off = 352 -> (IF k <= 10 THEN d ELSE 0)
      [] off = 368 -> d
      [] off = 384 -> (IF k = 15 THEN special ELSE IF k = 7 THEN 0 ELSE d)
      [] OTHER     -> 0

\* word j of the upper-case trie: a-z, U+00E0-U+00FE, U+3161-U+316F and
\* U+FF41-U+FF5A move down by 32, U+00FF maps to U+0178
UpperWord(j) ==
    IF j < 256 THEN (CASE j = 0 -> 256 [] j = 49 -> 272 [] j = 255 -> 288
                       [] OTHER -> 304)
    ELSE IF j < 272 THEN (CASE j - 256 = 6 -> 336 [] j - 256 = 7 -> 352
                            [] j - 256 = 14 -> 368 [] j - 256 = 15 -> 384
                            [] OTHER -> 320)
    ELSE IF j < 288 THEN (IF j - 272 = 6 THEN 336 ELSE 320)
    ELSE IF j < 304 THEN (CASE j - 288 = 4 -> 336 [] j - 288 = 5 -> 352
                            [] OTHER -> 320)
    ELSE IF j < 320 THEN 320
    ELSE TrieLeaf(j - (j % 16), j % 16, 65504, 121)

\* word j of the lower-case trie: A-Z, U+00C0-U+00DE, U+3141-U+314F and
\* U+FF21-U+FF3A move up by 32
LowerWord(j) ==
    IF j < 256 THEN (CASE j = 0 -> 256 [] j = 49 -> 272 [] j = 255 -> 288
                       [] OTHER -> 304)
    ELSE IF j < 272 THEN (CASE j - 256 = 4 -> 336 [] j - 256 = 5 -> 352
                            [] j - 256 = 12 -> 368 [] j - 256 = 13 -> 384
                            [] OTHER -> 320)
    ELSE IF j < 288 THEN (IF j - 272 = 4 THEN 336 ELSE 320)
    ELSE IF j < 304 THEN (CASE j - 288 = 2 -> 336 [] j - 288 = 3 -> 352
                            [] OTHER -> 320)
    ELSE IF j < 320 THEN 320
    ELSE TrieLeaf(j - (j % 16), j % 16, 32, 0)

CaseBlob(i) ==
    IF i = 0 THEN 2 + 2 * TrieSize
    ELSE IF i = 1 THEN TrieSize
    ELSE IF i < 2 + TrieSize THEN UpperWord(i - 2)
    ELSE LowerWord(i - 2 - TrieSize)

\* casemap( table, ch ): three dependent reads, the sum truncated to a WCHAR
casemap(table, ch) ==
    (ch + CaseBlob(table + CaseBlob(table + CaseBlob(table + (ch \div 256))
                                          + ((ch \div 16) % 16))
                         + (ch % 16))) % 65536

\* casemap_ascii with 'a' - 'A' taken as 16
casemap_ascii_Shift16(ch) == IF ch >= 97 /\ ch <= 122 THEN ch - 16 ELSE ch

\* casemap_ascii( ch )
casemap_ascii(ch) == IF ch >= 97 /\ ch <= 122 THEN ch - 32 ELSE ch

\* an NLSTABLEINFO that has never been filled in (static storage, all zero)
ZeroCpInfo ==
    [blob |-> "none", CodePage |-> 0, MaximumCharacterSize |-> 0,
     DefaultChar |-> 0, UniDefaultChar |-> 0,
     TransDefaultChar |-> 0, TransUniDefaultChar |-> 0,
     WideCharTable |-> NULL, MultiByteTable |-> NULL, DBCSRanges |-> NULL,
     DBCSCodePage |-> 0, DBCSOffsets |-> NULL]

ZeroNlsInfo ==
    [AnsiTableInfo |-> ZeroCpInfo, OemTableInfo |-> ZeroCpInfo,
     UpperCaseTable |-> NULL, LowerCaseTable |-> NULL]

\* RtlInitNlsTables( ansi, oem, casetable, info )
RtlInitNlsTables(ansi, oem) ==
    [AnsiTableInfo |-> RtlInitCodePageTable(ansi),
     OemTableInfo |-> RtlInitCodePageTable(oem),
     UpperCaseTable |-> 2,
     LowerCaseTable |-> CaseBlob(1) + 2]

(***************************************************************************)
(* Narrow <-> wide conversion through a code-page table                    *)
(***************************************************************************)
RECURSIVE mbtowc_size_loop_DropLead(_, _, _, _)
\* mutant: a lead byte that ends the string is not counted
mbtowc_size_loop_DropLead(info, str, pos, res) ==
    LET len == Len(str) - pos + 1 IN
    IF len = 0 THEN res
    ELSE IF DBCSOffsetsAt(info, str[pos]) # 0
    THEN IF len > 1 THEN mbtowc_size_loop_DropLead(info, str, pos + 2, res + 1)
         ELSE res
    ELSE mbtowc_size_loop_DropLead(info, str, pos + 1, res + 1)

RECURSIVE mbtowc_size_loop(_, _, _, _)
\* the for loop of mbtowc_size: pos the index of the next byte
mbtowc_size_loop(info, str, pos, res) ==
    LET len == Len(str) - pos + 1 IN
    IF len = 0 THEN res
    ELSE IF DBCSOffsetsAt(info, str[pos]) # 0 /\ len > 1
    THEN mbtowc_size_loop(info, str, pos + 2, res + 1)
    ELSE mbtowc_size_loop(info, str, pos + 1, res + 1)

\* mbtowc_size( info, str, len )
mbtowc_size(info, str) ==
    IF info.DBCSCodePage = 0 THEN Len(str) ELSE mbtowc_size_loop(info, str, 1, 0)

RECURSIVE wctomb_size_loop(_, _, _, _)
wctomb_size_loop(info, str, pos, res) ==
    IF pos > Len(str) THEN res
    ELSE IF WideCharTableAt(info, str[pos]) >= 256
    THEN wctomb_size_loop(info, str, pos + 1, res + 2)
    ELSE wctomb_size_loop(info, str, pos + 1, res + 1)

\* wctomb_size( info, str, len )
wctomb_size(info, str) ==
    IF info.DBCSCodePage # 0 THEN wctomb_size_loop(info, str, 1, 0) ELSE Len(str)

RECURSIVE CustomCPToUnicodeLoop_NoTrail(_, _, _, _, _)
\* mutant: the trail byte is looked up but not stepped over
CustomCPToUnicodeLoop_NoTrail(info, src, pos, i, out) ==
    LET srclen == Len(src) - pos + 1 IN
    IF ~(srclen # 0 /\ i # 0) THEN [i |-> i, out |-> out]
    ELSE LET off == DBCSOffsetsAt(info, src[pos]) IN
         IF off # 0 /\ srclen > 1
         THEN CustomCPToUnicodeLoop_NoTrail(info, src, pos + 1, i - 1,
                  Append(out, DBCSOffsetsAt(info, off + src[pos + 1])))
         ELSE CustomCPToUnicodeLoop_NoTrail(info, src, pos + 1, i - 1,
                  Append(out, MultiByteTableAt(info, src[pos])))

RECURSIVE CustomCPToUnicodeLoop(_, _, _, _, _)
\* the double-byte loop of RtlCustomCPToUnicodeN: i counts the free code
\* units of dst down, pos is the index of the next byte
CustomCPToUnicodeLoop(info, src, pos, i, out) ==
    LET srclen == Len(src) - pos + 1 IN
    IF ~(srclen # 0 /\ i # 0) THEN [i |-> i, out |-> out]
    ELSE LET off == DBCSOffsetsAt(info, src[pos]) IN
         IF off # 0 /\ srclen > 1
         THEN CustomCPToUnicodeLoop(info, src, pos + 2, i - 1,
                  Append(out, DBCSOffsetsAt(info, off + src[pos + 1])))
         ELSE CustomCPToUnicodeLoop(info, src, pos + 1, i - 1,
                  Append(out, MultiByteTableAt(info, src[pos])))

\* mutant: the length reported is the length the whole input needs
RtlCustomCPToUnicodeN_Needed(info, dstlen, src) ==
    LET cap == dstlen \div 2 IN
    IF info.DBCSOffsets # NULL
    THEN LET r == CustomCPToUnicodeLoop(info, src, 1, cap, <<>>) IN
         [status |-> "STATUS_SUCCESS", reslen |-> (cap - r.i) * 2, out |-> r.out]
    ELSE LET ret == Min(Len(src), cap) IN
         IF ret > 0 /\ info.MultiByteTable = NULL THEN Fault
         ELSE [status |-> "STATUS_SUCCESS", reslen |-> Len(src) * 2,
               out |-> [k \in 1..ret |-> MultiByteTableAt(info, src[k])]]

\* RtlCustomCPToUnicodeN( info, dst, dstlen, reslen, src, srclen )
RtlCustomCPToUnicodeN(info, dstlen, src) ==
    LET cap == dstlen \div 2 IN
    IF info.DBCSOffsets # NULL
    THEN LET r == CustomCPToUnicodeLoop(info, src, 1, cap, <<>>) IN
         [status |-> "STATUS_SUCCESS", reslen |-> (cap - r.i) * 2, out |-> r.out]
    ELSE LET ret == Min(Len(src), cap) IN
         IF ret > 0 /\ info.MultiByteTable = NULL THEN Fault
         ELSE [status |-> "STATUS_SUCCESS", reslen |-> ret * 2,
               out |-> [k \in 1..ret |-> MultiByteTableAt(info, src[k])]]

RECURSIVE UnicodeToCustomCPLoop_Partial(_, _, _, _, _)
\* mutant: without the i == 1 test the lead byte goes out alone
UnicodeToCustomCPLoop_Partial(info, src, pos, i, out) ==
    IF ~(pos <= Len(src) /\ i # 0) THEN [i |-> i, out |-> out]
    ELSE LET w == WideCharTableAt(info, src[pos]) IN
         IF w >= 256
         THEN IF i = 1 THEN [i |-> 0, out |-> Append(out, w \div 256)]
              ELSE UnicodeToCustomCPLoop_Partial(info, src, pos + 1, i - 2,
                                                 out \o <<w \div 256, w % 256>>)
         ELSE UnicodeToCustomCPLoop_Partial(info, src, pos + 1, i - 1,
                                            Append(out, w % 256))

RECURSIVE UnicodeToCustomCPLoop(_, _, _, _, _)
\* the double-byte loop of RtlUnicodeToCustomCPN: i counts the free bytes
\* of dst down, pos is the index of the next code unit
UnicodeToCustomCPLoop(info, src, pos, i, out) ==
    IF ~(pos <= Len(src) /\ i # 0) THEN [i |-> i, out |-> out]
    ELSE LET w == WideCharTableAt(info, src[pos]) IN
         IF w >= 256
         THEN IF i = 1 THEN [i |-> i, out |-> out]
              ELSE UnicodeToCustomCPLoop(info, src, pos + 1, i - 2,
                                         out \o <<w \div 256, w % 256>>)
         ELSE UnicodeToCustomCPLoop(info, src, pos + 1, i - 1, Append(out, w % 256))

\* mutant: a call that leaves input unconverted returns an overflow status
RtlUnicodeToCustomCPN_Overflow(info, dstlen, src) ==
    IF info.DBCSCodePage # 0
    THEN LET r == UnicodeToCustomCPLoop(info, src, 1, dstlen, <<>>) IN
         [status |-> IF Len(r.out) < wctomb_size(info, src)
                     THEN "STATUS_BUFFER_OVERFLOW" ELSE "STATUS_SUCCESS",
          reslen |-> dstlen - r.i, out |-> r.out]
    ELSE LET ret == Min(Len(src), dstlen) IN
         IF ret > 0 /\ info.WideCharTable = NULL THEN Fault
         ELSE [status |-> "STATUS_SUCCESS", reslen |-> ret,
               out |-> [k \in 1..ret |-> WideCharTableByteAt(info, src[k])]]

\* RtlUnicodeToCustomCPN( info, dst, dstlen, reslen, src, srclen ); src is
\* the srclen / sizeof(WCHAR) code units
RtlUnicodeToCustomCPN(info, dstlen, src) ==
    IF info.DBCSCodePage # 0
    THEN LET r == UnicodeToCustomCPLoop(info, src, 1, dstlen, <<>>) IN
         [status |-> "STATUS_SUCCESS", reslen |-> dstlen - r.i, out |-> r.out]
    ELSE LET ret == Min(Len(src), dstlen) IN
         IF ret > 0 /\ info.WideCharTable = NULL THEN Fault
         ELSE [status |-> "STATUS_SUCCESS", reslen |-> ret,
               out |-> [k \in 1..ret |-> WideCharTableByteAt(info, src[k])]]

\* RtlUpcaseUnicodeToCustomCPN: the same walk over casemap( upper, *src )
RtlUpcaseUnicodeToCustomCPN(nls, info, dstlen, src) ==
    LET ret == Min(Len(src), dstlen)
        up  == IF ret = 0 THEN src
               ELSE [k \in 1..Len(src) |-> casemap(nls.UpperCaseTable, src[k])]
    IN  IF ret > 0 /\ nls.UpperCaseTable = NULL THEN Fault
        ELSE IF info.DBCSCodePage # 0
        THEN LET r == UnicodeToCustomCPLoop(info, up, 1, dstlen, <<>>) IN
             [status |-> "STATUS_SUCCESS", reslen |-> dstlen - r.i, out |-> r.out]
        ELSE IF ret > 0 /\ info.WideCharTable = NULL THEN Fault
        ELSE [status |-> "STATUS_SUCCESS", reslen |-> ret,
              out |-> [k \in 1..ret |-> WideCharTableByteAt(info, up[k])]]

\* RtlMultiByteToUnicodeN( dst, dstlen, reslen, src, srclen )
RtlMultiByteToUnicodeN(nls, dstlen, src) ==
    IF nls.AnsiTableInfo.WideCharTable # NULL
    THEN RtlCustomCPToUnicodeN(nls.AnsiTableInfo, dstlen, src)
    ELSE LET n == Min(Len(src), dstlen \div 2) IN     \* locale not setup yet
         [status |-> "STATUS_SUCCESS", reslen |-> n * 2,
          out |-> [k \in 1..n |-> src[k] % 128]]

\* RtlMultiByteToUnicodeSize( size, str, len )
RtlMultiByteToUnicodeSize(nls, str) ==
    [status |-> "STATUS_SUCCESS",
     reslen |-> mbtowc_size(nls.AnsiTableInfo, str) * 2, out |-> <<>>]

\* RtlUnicodeToMultiByteSize( size, str, len )
RtlUnicodeToMultiByteSize(nls, str) ==
    [status |-> "STATUS_SUCCESS",
     reslen |-> wctomb_size(nls.AnsiTableInfo, str), out |-> <<>>]

(***************************************************************************)
(* A client of the UTF-8 codec: a size query (dst NULL), then a writing    *)
(* call with a destination of arg.dstlen bytes.                            *)
(***************************************************************************)
\* the cache and its threads while no call is in progress
CacheIdle ==
    /\ norm_tables = [f \in 0..15 |-> NULL]
    /\ views = <<>>
    /\ thr = <<>>

MaxUtf16Len == 3
MaxUtf8Len == 4

\* code units on both sides of every range boundary of the encoder
Utf16Units == {65, 128, 2047, 2048, 55296, 56320, 57343, 65535}

\* bytes on both sides of every range boundary of the decoder
Utf8Bytes == {65, 128, 144, 160, 194, 224, 237, 240, 244}

InitUtf ==
    /\ op \in {"RtlUnicodeToUTF8N", "RtlUTF8ToUnicodeN"}
    /\ arg \in IF op = "RtlUnicodeToUTF8N"
                THEN [src : SeqUpTo(Utf16Units, MaxUtf16Len),
                      dstlen : 0..(4 * MaxUtf16Len)]
                ELSE [src : SeqUpTo(Utf8Bytes, MaxUtf8Len),
                      dstlen : {2 * n : n \in 0..MaxUtf8Len}]
    /\ r1 = NoRes
    /\ r2 = NoRes
    /\ cpc = "start"
    /\ nls_info = ZeroNlsInfo
    /\ CacheIdle

UnicodeToUTF8NSizeCall ==
    /\ op = "RtlUnicodeToUTF8N" /\ cpc = "start"
    /\ r1' = RtlUnicodeToUTF8N(FALSE, 0, arg.src)
    /\ cpc' = "sized"
    /\ UNCHANGED <<op, arg, r2, nls_info>> /\ UNCHANGED cacheVars

UnicodeToUTF8NWriteCall ==
    /\ op = "RtlUnicodeToUTF8N" /\ cpc = "sized"
    /\ r2' = RtlUnicodeToUTF8N(TRUE, arg.dstlen, arg.src)
    /\ cpc' = "done"
    /\ UNCHANGED <<op, arg, r1, nls_info>> /\ UNCHANGED cacheVars

UTF8ToUnicodeNSizeCall ==
    /\ op = "RtlUTF8ToUnicodeN" /\ cpc = "start"
    /\ r1' = RtlUTF8ToUnicodeN(FALSE, 0, arg.src)
    /\ cpc' = "sized"
    /\ UNCHANGED <<op, arg, r2, nls_info>> /\ UNCHANGED cacheVars

UTF8ToUnicodeNWriteCall ==
    /\ op = "RtlUTF8ToUnicodeN" /\ cpc = "sized"
    /\ r2' = RtlUTF8ToUnicodeN(TRUE, arg.dstlen, arg.src)
    /\ cpc' = "done"
    /\ UNCHANGED <<op, arg, r1, nls_info>> /\ UNCHANGED cacheVars

NextUtf ==
    \/ UnicodeToUTF8NSizeCall
    \/ UnicodeToUTF8NWriteCall
    \/ UTF8ToUnicodeNSizeCall
    \/ UTF8ToUnicodeNWriteCall

SpecUtf == InitUtf /\ [][NextUtf]_vars

\* no high surrogate without a following low one, no low surrogate without
\* a preceding high one
NoUnpairedSurrogate(s) ==
    \A i \in 1..Len(s) :
        /\ IS_HIGH_SURROGATE(s[i]) => (i < Len(s) /\ IS_LOW_SURROGATE(s[i + 1]))
        /\ IS_LOW_SURROGATE(s[i]) => (i > 1 /\ IS_HIGH_SURROGATE(s[i - 1]))

\* C1: on input without unpaired surrogates, the size-only pass of
\* RtlUnicodeToUTF8N reports the byte count that the writing pass reports
\* when its destination holds the whole result.
C1_SizeEqualsWritten ==
    (/\ op = "RtlUnicodeToUTF8N" /\ cpc = "done"
     /\ NoUnpairedSurrogate(arg.src)
     /\ arg.dstlen >= r1.reslen)
    => (r2.reslen = r1.reslen /\ Len(r2.out) = r1.reslen)

C1_Witness ==
    /\ op = "RtlUnicodeToUTF8N" /\ cpc = "done"
    /\ Len(arg.src) = 3
    /\ IS_HIGH_SURROGATE(arg.src[1]) /\ IS_LOW_SURROGATE(arg.src[2])
    /\ arg.src[3] = 2048
    /\ arg.dstlen >= r1.reslen
    /\ r1.reslen = 7 /\ r2.reslen = 7

\* C2: the size-only pass of RtlUTF8ToUnicodeN reports the length that the
\* writing pass reports when its destination holds the whole result; a code
\* point above 0xFFFF counts two code units, an invalid sequence one.
C2_SizeEqualsWritten ==
    (/\ op = "RtlUTF8ToUnicodeN" /\ cpc = "done"
     /\ arg.dstlen >= r1.reslen)
    => (r2.reslen = r1.reslen /\ Len(r2.out) * 2 = r1.reslen)

C2_Witness ==
    /\ op = "RtlUTF8ToUnicodeN" /\ cpc = "done"
    /\ arg.src = <<240, 144, 128, 128>>
    /\ arg.dstlen >= r1.reslen
    /\ r1.reslen = 4 /\ r2.out = <<55296, 56320>>

(***************************************************************************)
(* A client of the code-page conversions: a size query, then the           *)
(* conversion into a destination of arg.dstlen bytes; or ("RoundTrip") a   *)
(* narrow-to-wide conversion followed by the wide-to-narrow conversion of  *)
(* its output, both with sufficient buffers.                               *)
(***************************************************************************)
MaxCpLen == 3

\* 'A', 'a', '0' (no trail byte of a mapped pair), both lead bytes, 0xa5
CpBytes == {65, 97, 48, 129, 130, 165}

\* 'A', 'a', the characters of 0x81 'A' and 0x82 'a', of 0xa5, and U+20AC
CpUnits == {65, 97, 12353, 12641, 65445, 8364}

InstalledNls == RtlInitNlsTables("sbcs", "dbcs")

InitCP ==
    /\ op \in {"RtlCustomCPToUnicodeN", "RtlUnicodeToCustomCPN",
               "RtlUpcaseUnicodeToCustomCPN", "RoundTrip", "RtlMultiByteToUnicodeN"}
    /\ arg \in [cp : Blobs \cup {"ansi"},
                src : SeqUpTo(IF op \in {"RtlUnicodeToCustomCPN",
                                         "RtlUpcaseUnicodeToCustomCPN"}
                              THEN CpUnits ELSE CpBytes, MaxCpLen),
                dstlen : 0..(2 * MaxCpLen)]
    /\ (arg.cp = "ansi") = (op = "RtlMultiByteToUnicodeN")
    /\ op \in {"RoundTrip", "RtlUpcaseUnicodeToCustomCPN"} => arg.cp # "utf8"
    /\ op = "RoundTrip" => arg.dstlen = 0
    /\ nls_info \in CASE op = "RtlUpcaseUnicodeToCustomCPN" -> {ZeroNlsInfo, InstalledNls}
                      [] op = "RtlMultiByteToUnicodeN" ->
                            {ZeroNlsInfo, InstalledNls, RtlInitNlsTables("dbcs", "glyph")}
                      [] OTHER -> {InstalledNls}
    /\ r1 = NoRes
    /\ r2 = NoRes
    /\ cpc = "start"
    /\ CacheIdle

\* the size query that goes with RtlCustomCPToUnicodeN (mbtowc_size)
MbSizeCall ==
    /\ op = "RtlCustomCPToUnicodeN" /\ cpc = "start"
    /\ r1' = [status |-> "STATUS_SUCCESS",
              reslen |-> mbtowc_size(RtlInitCodePageTable(arg.cp), arg.src) * 2,
              out |-> <<>>]
    /\ cpc' = "sized"
    /\ UNCHANGED <<op, arg, r2, nls_info>> /\ UNCHANGED cacheVars

CustomCPToUnicodeNCall ==
    /\ op = "RtlCustomCPToUnicodeN" /\ cpc = "sized"
    /\ r2' = RtlCustomCPToUnicodeN(RtlInitCodePageTable(arg.cp), arg.dstlen, arg.src)
    /\ cpc' = "done"
    /\ UNCHANGED <<op, arg, r1, nls_info>> /\ UNCHANGED cacheVars

\* the size query that goes with RtlUnicodeToCustomCPN (wctomb_size)
WcSizeCall ==
    /\ op = "RtlUnicodeToCustomCPN" /\ cpc = "start"
    /\ r1' = [status |-> "STATUS_SUCCESS",
              reslen |-> wctomb_size(RtlInitCodePageTable(arg.cp), arg.src),
              out |-> <<>>]
    /\ cpc' = "sized"
    /\ UNCHANGED <<op, arg, r2, nls_info>> /\ UNCHANGED cacheVars

UnicodeToCustomCPNCall ==
    /\ op = "RtlUnicodeToCustomCPN" /\ cpc = "sized"
    /\ r2' = RtlUnicodeToCustomCPN(RtlInitCodePageTable(arg.cp), arg.dstlen, arg.src)
    /\ cpc' = "done"
    /\ UNCHANGED <<op, arg, r1, nls_info>> /\ UNCHANGED cacheVars

UpcaseUnicodeToCustomCPNCall ==
    /\ op = "RtlUpcaseUnicodeToCustomCPN" /\ cpc = "start"
    /\ r2' = RtlUpcaseUnicodeToCustomCPN(nls_info, RtlInitCodePageTable(arg.cp),
                                         arg.dstlen, arg.src)
    /\ cpc' = "done"
    /\ UNCHANGED <<op, arg, r1, nls_info>> /\ UNCHANGED cacheVars

RoundTripNarrowToWide ==
    /\ op = "RoundTrip" /\ cpc = "start"
    /\ r1' = RtlCustomCPToUnicodeN(RtlInitCodePageTable(arg.cp),
                                   2 * Len(arg.src), arg.src)
    /\ cpc' = "sized"
    /\ UNCHANGED <<op, arg, r2, nls_info>> /\ UNCHANGED cacheVars

RoundTripWideToNarrow ==
    /\ op = "RoundTrip" /\ cpc = "sized"
    /\ r2' = RtlUnicodeToCustomCPN(RtlInitCodePageTable(arg.cp),
                                   2 * Len(r1.out), r1.out)
    /\ cpc' = "done"
    /\ UNCHANGED <<op, arg, r1, nls_info>> /\ UNCHANGED cacheVars

MultiByteToUnicodeSizeCall ==
    /\ op = "RtlMultiByteToUnicodeN" /\ cpc = "start"
    /\ r1' = RtlMultiByteToUnicodeSize(nls_info, arg.src)
    /\ cpc' = "sized"
    /\ UNCHANGED <<op, arg, r2, nls_info>> /\ UNCHANGED cacheVars

MultiByteToUnicodeNCall ==
    /\ op = "RtlMultiByteToUnicodeN" /\ cpc = "sized"
    /\ r2' = RtlMultiByteToUnicodeN(nls_info, arg.dstlen, arg.src)
    /\ cpc' = "done"
    /\ UNCHANGED <<op, arg, r1, nls_info>> /\ UNCHANGED cacheVars

NextCP ==
    \/ MbSizeCall
    \/ CustomCPToUnicodeNCall
    \/ WcSizeCall
    \/ UnicodeToCustomCPNCall
    \/ UpcaseUnicodeToCustomCPNCall
    \/ RoundTripNarrowToWide
    \/ RoundTripWideToNarrow
    \/ MultiByteToUnicodeSizeCall
    \/ MultiByteToUnicodeNCall

SpecCP == InitCP /\ [][NextCP]_vars

(***************************************************************************)
(* Reference encodings, stated on the characters of a page rather than on  *)
(* its tables                                                              *)
(***************************************************************************)
EncBytes(b, wc) ==
    LET x == BytesOfChar(b, wc) IN
    IF x >= 256 THEN <<x \div 256, x % 256>> ELSE <<x>>

RECURSIVE EncodeAll(_, _)
EncodeAll(b, s) ==
    IF s = <<>> THEN <<>> ELSE EncBytes(b, Head(s)) \o EncodeAll(b, Tail(s))

Prefix(s, k) == SubSeq(s, 1, k)

\* what the wide-to-narrow call of the state encodes: the source, upper-cased
\* for the Upcase variant
WideInput ==
    IF op = "RtlUpcaseUnicodeToCustomCPN"
    THEN [k \in 1..Len(arg.src) |-> casemap(InstalledNls.UpperCaseTable, arg.src[k])]
    ELSE arg.src

\* C4: on a double-byte page RtlUnicodeToCustomCPN and
\* RtlUpcaseUnicodeToCustomCPN write the complete encodings of a prefix of
\* the input, never a lone lead byte; they stop before a 2-byte character
\* for which one byte is left and report the shorter length, at most dstlen.
C4_NoPartialChar ==
    (/\ cpc = "done" /\ arg.cp = "dbcs"
     /\ op \in {"RtlUnicodeToCustomCPN", "RtlUpcaseUnicodeToCustomCPN"}
     /\ (op = "RtlUpcaseUnicodeToCustomCPN" => nls_info.UpperCaseTable # NULL))
    => \E k \in 0..Len(WideInput) :
          /\ r2.out = EncodeAll("dbcs", Prefix(WideInput, k))
          /\ r2.reslen = Len(r2.out)
          /\ r2.reslen <= arg.dstlen
          /\ k < Len(WideInput) =>
                \/ arg.dstlen - r2.reslen = 0
                \/ /\ arg.dstlen - r2.reslen = 1
                   /\ Len(EncBytes("dbcs", WideInput[k + 1])) = 2

C4_Witness ==
    /\ cpc = "done" /\ arg.cp = "dbcs" /\ op = "RtlUpcaseUnicodeToCustomCPN"
    /\ nls_info.UpperCaseTable # NULL
    /\ arg.src = <<97, 12641>> /\ arg.dstlen = 2
    /\ r2.out = <<65>> /\ r2.reslen = 1

\* the destination cannot take both bytes of some 2-byte character: the
\* encodings before it leave fewer than two bytes
CannotHoldPair ==
    \E k \in 0..(Len(arg.src) - 1) :
        /\ Len(EncBytes("dbcs", arg.src[k + 1])) = 2
        /\ Len(EncodeAll("dbcs", Prefix(arg.src, k))) \in {arg.dstlen - 1, arg.dstlen}

\* C5 as claimed: when the destination cannot hold both bytes of a 2-byte
\* sequence, RtlUnicodeToCustomCPN returns a status other than success.
C5_OverflowStatus ==
    (/\ cpc = "done" /\ arg.cp = "dbcs" /\ op = "RtlUnicodeToCustomCPN"
     /\ CannotHoldPair)
    => r2.status # "STATUS_SUCCESS"

\* C5 amended: in that case RtlUnicodeToCustomCPN still returns
\* STATUS_SUCCESS; the truncation shows only in the length it reports, which
\* is below the length wctomb_size computes for the input.
C5_SuccessShortLength ==
    (/\ cpc = "done" /\ arg.cp = "dbcs" /\ op = "RtlUnicodeToCustomCPN"
     /\ CannotHoldPair)
    => /\ r2.status = "STATUS_SUCCESS"
       /\ r2.reslen < r1.reslen
       /\ r2.reslen <= arg.dstlen

C5_Witness ==
    /\ cpc = "done" /\ arg.cp = "dbcs" /\ op = "RtlUnicodeToCustomCPN"
    /\ arg.src = <<65, 12353>> /\ arg.dstlen = 2
    /\ r2.status = "STATUS_SUCCESS" /\ r2.reslen = 1 /\ r1.reslen = 3

RECURSIVE Mappable(_, _, _)
\* from index pos on, s is made of mapped single bytes and of complete
\* lead/trail pairs of mapped characters
Mappable(b, s, pos) ==
    IF pos > Len(s) THEN TRUE
    ELSE IF IsLead(b, s[pos])
    THEN /\ pos < Len(s)
         /\ BytesOfChar(b, CharOfPair(b, LeadIndex(b, s[pos]), s[pos + 1]))
               = s[pos] * 256 + s[pos + 1]
         /\ Mappable(b, s, pos + 2)
    ELSE /\ BytesOfChar(b, CharOfByte(b, s[pos])) = s[pos]
         /\ Mappable(b, s, pos + 1)

\* C6: on a double-byte page, a byte string of mappable characters converted
\* by RtlCustomCPToUnicodeN and back by RtlUnicodeToCustomCPN, with
\* sufficient buffers, comes back byte for byte with its length.
C6_RoundTrip ==
    (/\ cpc = "done" /\ op = "RoundTrip" /\ arg.cp = "dbcs"
     /\ Mappable("dbcs", arg.src, 1))
    => /\ r2.status = "STATUS_SUCCESS"
       /\ r2.out = arg.src
       /\ r2.reslen = Len(arg.src)

C6_Witness ==
    /\ cpc = "done" /\ op = "RoundTrip" /\ arg.cp = "dbcs"
    /\ arg.src = <<129, 65, 97>>
    /\ r1.out = <<12353, 97>>
    /\ r2.out = arg.src

\* C7 as claimed: for every table RtlInitCodePageTable produces, mbtowc_size
\* is the number of code units RtlCustomCPToUnicodeN writes into a
\* sufficient destination, and wctomb_size the number of bytes
\* RtlUnicodeToCustomCPN writes.
C7_SizeEqualsWritten_AllTables ==
    /\ (/\ cpc = "done" /\ op = "RtlCustomCPToUnicodeN"
        /\ arg.dstlen \div 2 >= r1.reslen \div 2)
       => (r2.status = "STATUS_SUCCESS" /\ Len(r2.out) * 2 = r1.reslen)
    /\ (/\ cpc = "done" /\ op = "RtlUnicodeToCustomCPN"
        /\ arg.dstlen >= r1.reslen)
       => (r2.status = "STATUS_SUCCESS" /\ Len(r2.out) = r1.reslen)

\* C7 amended: the same for every table RtlInitCodePageTable builds from a
\* table blob, a string ending in a lone lead byte included; the UTF-8
\* sentinel descriptor, which has no tables, is left out.
C7_SizeEqualsWritten ==
    /\ (/\ cpc = "done" /\ op = "RtlCustomCPToUnicodeN" /\ arg.cp # "utf8"
        /\ arg.dstlen \div 2 >= r1.reslen \div 2)
       => (/\ r2.status = "STATUS_SUCCESS"
           /\ Len(r2.out) * 2 = r1.reslen /\ r2.reslen = r1.reslen)
    /\ (/\ cpc = "done" /\ op = "RtlUnicodeToCustomCPN" /\ arg.cp # "utf8"
        /\ arg.dstlen >= r1.reslen)
       => (/\ r2.status = "STATUS_SUCCESS"
           /\ Len(r2.out) = r1.reslen /\ r2.reslen = r1.reslen)
    /\ (/\ cpc = "done" /\ op = "RtlMultiByteToUnicodeN" /\ nls_info # ZeroNlsInfo
        /\ arg.dstlen \div 2 >= r1.reslen \div 2)
       => (/\ r2.status = "STATUS_SUCCESS"
           /\ Len(r2.out) * 2 = r1.reslen /\ r2.reslen = r1.reslen)

C7_Witness ==
    /\ cpc = "done" /\ op = "RtlCustomCPToUnicodeN" /\ arg.cp = "dbcs"
    /\ arg.src = <<129, 65, 129>>
    /\ arg.dstlen = 4
    /\ r1.reslen = 4 /\ r2.out = <<12353, 0>>

\* the page the narrow-to-wide call of the state converts with
NarrowPage == IF op = "RtlMultiByteToUnicodeN" THEN nls_info.AnsiTableInfo.blob
              ELSE arg.cp

\* C8 as claimed: with destination length 0 on an n-byte string of a
\* single-byte page, narrow-to-wide returns success, reports n code units as
\* the required length and writes nothing.
C8_ZeroDstReportsRequired ==
    (/\ cpc = "done" /\ op \in {"RtlCustomCPToUnicodeN", "RtlMultiByteToUnicodeN"}
     /\ NarrowPage \in {"sbcs", "glyph"} /\ arg.dstlen = 0)
    => /\ r2.status = "STATUS_SUCCESS"
       /\ r2.reslen \div 2 = Len(arg.src)
       /\ r2.out = <<>>

\* C8 amended: it returns success, writes nothing and reports length 0, the
\* number of code units converted; the required length n comes from the size
\* query (mbtowc_size, RtlMultiByteToUnicodeSize).
C8_ZeroDstReportsZero ==
    (/\ cpc = "done" /\ op \in {"RtlCustomCPToUnicodeN", "RtlMultiByteToUnicodeN"}
     /\ NarrowPage \in {"sbcs", "glyph"} /\ arg.dstlen = 0)
    => /\ r2.status = "STATUS_SUCCESS"
       /\ r2.reslen = 0
       /\ r2.out = <<>>
       /\ r1.reslen \div 2 = Len(arg.src)

C8_Witness ==
    /\ cpc = "done" /\ op = "RtlMultiByteToUnicodeN"
    /\ NarrowPage = "sbcs" /\ arg.dstlen = 0
    /\ Len(arg.src) = MaxCpLen
    /\ r2.status = "STATUS_SUCCESS" /\ r2.reslen = 0 /\ r2.out = <<>>
    /\ r1.reslen = 2 * MaxCpLen

(***************************************************************************)
(* load_norm_table: the per-form cache of normalization tables.            *)
(*                                                                         *)
(* A view is a record [state, blob]: a section view NtGetNlsSectionPtr has *)
(* mapped, "mapped" until NtUnmapViewOfSection; pointers to views are      *)
(* their indices in views.  A blob is a record [size, tag, tables]: the    *)
(* size of the section in bytes, data[0x14] and data[0x1a .. 0x21].        *)
(* A thread is a record [pc, form, data, status, info, calls].             *)
(***************************************************************************)
NThreads == 2
\* the calls of load_norm_table the threads make in all
MaxCalls == 3

Threads == 1..NThreads

\* the forms callers pass: none, a real one (13, the form RtlIdnToNameprepUnicode
\* normalizes with), and one past the cache
CallForms == {0, 13, 16}

\* what the table supplier may hand out for form f: a well-formed table
\* (an offset equal to size / 2 and equal neighbours are allowed), a section
\* of 0x44 bytes, another form's table, an offset past the end, and offsets
\* out of order
NormBlobs(f) ==
    { [size |-> 256, tag |-> f, tables |-> <<26, 30, 30, 40, 50, 60, 128, 128>>],
      [size |-> 68, tag |-> f, tables |-> <<26, 30, 30, 32, 32, 33, 34, 34>>],
      [size |-> 256, tag |-> (f % 15) + 1,
       tables |-> <<26, 30, 30, 40, 50, 60, 128, 128>>],
      [size |-> 256, tag |-> f, tables |-> <<26, 30, 30, 40, 50, 60, 128, 129>>],
      [size |-> 256, tag |-> f, tables |-> <<26, 30, 29, 40, 50, 60, 128, 128>>] }

RECURSIVE norm_tables_ok(_, _, _)
\* the for loop of the sanity checks, from i on: FALSE where it goes to invalid
norm_tables_ok(size, tables, i) ==
    IF ~(i < 8) THEN TRUE
    ELSE IF tables[i + 1] > size \div 2 THEN FALSE
    ELSE IF i # 0 /\ tables[i + 1] < tables[i] THEN FALSE
    ELSE norm_tables_ok(size, tables, i + 1)

\* the sanity checks without the test of the form tag
norm_sanity_checks_NoTag(form, blob) ==
    IF blob.size <= 68 THEN FALSE
    ELSE norm_tables_ok(blob.size, blob.tables, 0)

\* the sanity checks of load_norm_table: FALSE where they go to invalid
norm_sanity_checks(form, blob) ==
    IF blob.size <= 68 THEN FALSE                  \* size <= 0x44
    ELSE IF blob.tag # form THEN FALSE             \* data[0x14] != form
    ELSE norm_tables_ok(blob.size, blob.tables, 0)

RECURSIVE CallsMade(_)
\* the calls the threads 1..n have made
CallsMade(n) == IF n = 0 THEN 0 ELSE thr[n].calls + CallsMade(n - 1)

IdleThread ==
    [pc |-> "idle", form |-> 0, data |-> NULL, status |-> "none", info |-> NULL,
     calls |-> 0]

Init ==
    /\ op = "none" /\ arg = <<>> /\ r1 = NoRes /\ r2 = NoRes /\ cpc = "idle"
    /\ nls_info = ZeroNlsInfo
    /\ norm_tables = [f \in 0..15 |-> NULL]
    /\ views = <<>>
    /\ thr = [t \in Threads |-> IdleThread]

Return(t, status, info) ==
    thr' = [thr EXCEPT ![t].pc = "done", ![t].status = status, ![t].info = info]

\* Call with one status for both tests on form
Call_OneStatus(t, form) ==
    /\ thr[t].pc \in {"idle", "done"}
    /\ CallsMade(NThreads) < MaxCalls
    /\ thr' = [thr EXCEPT ![t] =
          IF form = 0
          THEN [pc |-> "done", form |-> form, data |-> NULL,
                status |-> "STATUS_INVALID_PARAMETER", info |-> NULL,
                calls |-> @.calls + 1]
          ELSE IF form >= 16
          THEN [pc |-> "done", form |-> form, data |-> NULL,
                status |-> "STATUS_INVALID_PARAMETER", info |-> NULL,
                calls |-> @.calls + 1]
          ELSE [pc |-> "test", form |-> form, data |-> NULL,
                status |-> "none", info |-> NULL, calls |-> @.calls + 1]]
    /\ UNCHANGED <<norm_tables, views>>

\* a thread enters load_norm_table( form, &info ): the two tests on form
Call(t, form) ==
    /\ thr[t].pc \in {"idle", "done"}
    /\ CallsMade(NThreads) < MaxCalls
    /\ thr' = [thr EXCEPT ![t] =
          IF form = 0
          THEN [pc |-> "done", form |-> form, data |-> NULL,
                status |-> "STATUS_INVALID_PARAMETER", info |-> NULL,
                calls |-> @.calls + 1]
          ELSE IF form >= 16
          THEN [pc |-> "done", form |-> form, data |-> NULL,
                status |-> "STATUS_OBJECT_NAME_NOT_FOUND", info |-> NULL,
                calls |-> @.calls + 1]
          ELSE [pc |-> "test", form |-> form, data |-> NULL,
                status |-> "none", info |-> NULL, calls |-> @.calls + 1]]
    /\ UNCHANGED <<norm_tables, views>>

\* if (!norm_tables[form])
TestSlot(t) ==
    /\ thr[t].pc = "test"
    /\ thr' = [thr EXCEPT ![t].pc =
                  IF norm_tables[thr[t].form] = NULL THEN "map" ELSE "read"]
    /\ UNCHANGED <<norm_tables, views>>

\* NtGetNlsSectionPtr succeeds: a new view of the blob the supplier has
MapSection(t, blob) ==
    /\ thr[t].pc = "map"
    /\ views' = Append(views, [state |-> "mapped", blob |-> blob])
    /\ thr' = [thr EXCEPT ![t].pc = "check", ![t].data = Len(views) + 1]
    /\ UNCHANGED norm_tables

\* NtGetNlsSectionPtr fails: its status is returned
MapSectionFails(t) ==
    /\ thr[t].pc = "map"
    /\ Return(t, "STATUS_OBJECT_NAME_NOT_FOUND", NULL)
    /\ UNCHANGED <<norm_tables, views>>

\* the sanity checks pass
ChecksPass(t) ==
    /\ thr[t].pc = "check"
    /\ norm_sanity_checks(thr[t].form, views[thr[t].data].blob)
    /\ thr' = [thr EXCEPT ![t].pc = "cas"]
    /\ UNCHANGED <<norm_tables, views>>

\* invalid: the view is unmapped and STATUS_INVALID_PARAMETER returned
ChecksFail(t) ==
    /\ thr[t].pc = "check"
    /\ ~norm_sanity_checks(thr[t].form, views[thr[t].data].blob)
    /\ views' = [views EXCEPT ![thr[t].data].state = "unmapped"]
    /\ Return(t, "STATUS_INVALID_PARAMETER", NULL)
    /\ UNCHANGED norm_tables

\* a plain store in the place of the compare-exchange
CompareExchange_Store(t) ==
    /\ thr[t].pc = "cas"
    /\ norm_tables' = [norm_tables EXCEPT ![thr[t].form] = thr[t].data]
    /\ thr' = [thr EXCEPT ![t].pc = "read"]
    /\ UNCHANGED views

\* InterlockedCompareExchangePointer( &norm_tables[form], data, NULL )
CompareExchange(t) ==
    /\ thr[t].pc = "cas"
    /\ IF norm_tables[thr[t].form] = NULL
       THEN /\ norm_tables' = [norm_tables EXCEPT ![thr[t].form] = thr[t].data]
            /\ thr' = [thr EXCEPT ![t].pc = "read"]
       ELSE /\ UNCHANGED norm_tables
            /\ thr' = [thr EXCEPT ![t].pc = "unmap"]
    /\ UNCHANGED views

\* the exchange found the slot taken: NtUnmapViewOfSection( data )
UnmapOwn(t) ==
    /\ thr[t].pc = "unmap"
    /\ views' = [views EXCEPT ![thr[t].data].state = "unmapped"]
    /\ thr' = [thr EXCEPT ![t].pc = "read"]
    /\ UNCHANGED norm_tables

\* *info = norm_tables[form]; return STATUS_SUCCESS
ReadSlot(t) ==
    /\ thr[t].pc = "read"
    /\ Return(t, "STATUS_SUCCESS", norm_tables[thr[t].form])
    /\ UNCHANGED <<norm_tables, views>>

clientVars == <<op, arg, r1, r2, cpc, nls_info>>

Next ==
    \/ \E t \in Threads, form \in CallForms : Call(t, form) /\ UNCHANGED clientVars
    \/ \E t \in Threads : TestSlot(t) /\ UNCHANGED clientVars
    \/ \E t \in Threads : \E blob \in NormBlobs(thr[t].form) :
          MapSection(t, blob) /\ UNCHANGED clientVars
    \/ \E t \in Threads : MapSectionFails(t) /\ UNCHANGED clientVars
    \/ \E t \in Threads : ChecksPass(t) /\ UNCHANGED clientVars
    \/ \E t \in Threads : ChecksFail(t) /\ UNCHANGED clientVars
    \/ \E t \in Threads : CompareExchange(t) /\ UNCHANGED clientVars
    \/ \E t \in Threads : UnmapOwn(t) /\ UNCHANGED clientVars
    \/ \E t \in Threads : ReadSlot(t) /\ UNCHANGED clientVars

Spec == Init /\ [][Next]_vars

(***************************************************************************)
(* C9, C10: the cache of normalization tables                              *)
(***************************************************************************)
\* the views no thread in load_norm_table still holds
Settled(v) == \A t \in Threads : thr[t].pc = "done" \/ thr[t].data # v

C9_Published ==
    /\ \A t \in Threads :
          thr[t].pc = "done" /\ thr[t].status = "STATUS_SUCCESS"
          => thr[t].info # NULL /\ thr[t].info = norm_tables[thr[t].form]
    /\ \A t \in Threads :
          /\ thr[t].pc \in {"read", "done"}
          /\ thr[t].data # NULL
          /\ thr[t].status # "STATUS_INVALID_PARAMETER"
          /\ norm_tables[thr[t].form] # thr[t].data
          => views[thr[t].data].state = "unmapped"
    /\ \A f \in 0..15 :
          norm_tables[f] # NULL => views[norm_tables[f]].state = "mapped"
    /\ \A v \in 1..Len(views) :
          views[v].state = "mapped" /\ Settled(v)
          => \E f \in 0..15 : norm_tables[f] = v

C9_SlotStable ==
    \A f \in 0..15 : norm_tables[f] # NULL => norm_tables'[f] = norm_tables[f]

\* C9: under every interleaving of load_norm_table calls a slot of norm_tables,
\* once set, never changes; a caller that returns success has received the
\* table in the slot; a thread whose compare-exchange found the slot taken has
\* unmapped the view it mapped; the view in the slot stays mapped, and it is
\* the only view left mapped once the calls have returned.
C9_PublishOnce == []C9_Published /\ [][C9_SlotStable]_vars

\* two callers raced for form 13: both returned success with the same table,
\* and the one that lost the exchange has unmapped its own view
C9_Witness ==
    /\ thr[1].pc = "done" /\ thr[2].pc = "done"
    /\ thr[1].form = 13 /\ thr[2].form = 13
    /\ thr[1].status = "STATUS_SUCCESS" /\ thr[2].status = "STATUS_SUCCESS"
    /\ thr[1].data # NULL /\ thr[2].data # NULL
    /\ thr[1].info = thr[2].info
    /\ norm_tables[13] = thr[2].data
    /\ views[thr[1].data].state = "unmapped"
    /\ views[thr[2].data].state = "mapped"

\* what makes a blob fail validation: its size is not above 0x44, its form tag
\* is not the requested form, an offset (in 16-bit units) lies beyond the
\* blob, or the offsets are not non-decreasing
NormBlobInvalid(form, blob) ==
    \/ ~(blob.size > 68)
    \/ blob.tag # form
    \/ \E i \in 1..8 : 2 * blob.tables[i] > blob.size
    \/ \E i \in 2..8 : blob.tables[i] < blob.tables[i - 1]

C10_Rejected ==
    /\ \A t \in Threads :
          /\ thr[t].data # NULL
          /\ thr[t].pc # "check"
          /\ NormBlobInvalid(thr[t].form, views[thr[t].data].blob)
          => /\ thr[t].pc = "done"
             /\ thr[t].status = "STATUS_INVALID_PARAMETER"
             /\ thr[t].info = NULL
             /\ views[thr[t].data].state = "unmapped"
    /\ \A f \in 0..15 :
          norm_tables[f] # NULL => ~NormBlobInvalid(f, views[norm_tables[f]].blob)
    /\ \A t \in Threads :
          thr[t].pc = "done" /\ thr[t].status = "STATUS_SUCCESS"
          => ~NormBlobInvalid(thr[t].form, views[thr[t].info].blob)

C10_SlotUntouched ==
    \A t \in Threads :
        /\ thr[t].pc = "check"
        /\ thr'[t].pc # "check"
        /\ NormBlobInvalid(thr[t].form, views[thr[t].data].blob)
        => norm_tables' = norm_tables

\* C10: a blob that fails validation makes load_norm_table return
\* STATUS_INVALID_PARAMETER with its view unmapped and norm_tables as it was;
\* no such blob is ever in a slot or handed to a caller.
C10_RejectedNeverCached == []C10_Rejected /\ [][C10_SlotUntouched]_vars

\* a blob of another form was rejected and unmapped while the slot of form 13
\* holds a table another thread published
C10_Witness ==
    \E t \in Threads :
        /\ thr[t].pc = "done"
        /\ thr[t].form = 13
        /\ thr[t].status = "STATUS_INVALID_PARAMETER"
        /\ thr[t].data # NULL
        /\ views[thr[t].data].blob.tag # 13
        /\ views[thr[t].data].state = "unmapped"
        /\ norm_tables[13] # NULL
        /\ norm_tables[13] # thr[t].data

(***************************************************************************)
(* Normalization tables.  The layout of struct norm_table and the helpers  *)
(* that read it (get_char_props, get_combining_class, decompose_string,    *)
(* compose_string) are declared in locale_private.h; they are modelled     *)
(* here from the description of the normalization engine, over a small     *)
(* repertoire of characters.  A table is identified by the view it was     *)
(* mapped into; its content is a function of the form tag of the blob.     *)
(***************************************************************************)
HANGUL_SBASE == 44032    \* 0xac00
HANGUL_LBASE == 4352     \* 0x1100
HANGUL_VBASE == 4449     \* 0x1161
HANGUL_TBASE == 4519     \* 0x11a7
HANGUL_LCOUNT == 19
HANGUL_VCOUNT == 21
HANGUL_TCOUNT == 28
HANGUL_NCOUNT == HANGUL_VCOUNT * HANGUL_TCOUNT
HANGUL_SCOUNT == HANGUL_LCOUNT * HANGUL_NCOUNT

\* the form a table was built for
FormOf(info) == views[info].blob.tag

\* forms 1 (C), 5 (KC) and 13 (IDN) compose; 2 (D) and 6 (KD) only decompose
Composing(form) == form \in {1, 5, 13}
\* forms 5, 6 and 13 apply the compatibility mappings too
Compat(form) == form \in {5, 6, 13}

\* info->len_factor: the longest expansion of one code unit under the form
len_factor(info) == IF Compat(FormOf(info)) THEN 18 ELSE 3
\* info->comp_size: the size of the composition table, 0 where there is none
comp_size(info) == IF Composing(FormOf(info)) THEN 64 ELSE 0

\* info->classes: the combining classes the property bytes index
NormClasses == <<0, 9, 220, 230>>

\* the index in NormClasses of the combining class of ch: U+094D virama (9),
\* U+0323 dot below (220), U+0301 acute, U+0304 macron, U+0308 diaeresis (230)
ClassIndex(ch) ==
    CASE ch = 2381 -> 1
      [] ch = 803 -> 2
      [] ch \in {769, 772, 776} -> 3
      [] OTHER -> 0

\* the full canonical decomposition of the characters that have one:
\* U+00DC, U+00E9, U+00FC, U+01D5, U+1EB9
CanonDecomp(ch) ==
    CASE ch = 220 -> <<85, 776>>
      [] ch = 233 -> <<101, 769>>
      [] ch = 252 -> <<117, 776>>
      [] ch = 469 -> <<85, 776, 772>>
      [] ch = 7865 -> <<101, 803>>
      [] OTHER -> <<>>

\* the compatibility mappings of U+FB01 (the ligature fi) and of U+FDFA, the
\* longest there is: 18 code units
CompatDecomp(ch) ==
    CASE ch = 64257 -> <<102, 105>>
      [] ch = 65018 -> <<1589, 1604, 1609, 32, 1575, 1604, 1604, 1607, 32,
                         1593, 1604, 1610, 1607, 32, 1608, 1587, 1604, 1605>>
      [] OTHER -> <<>>

\* the case folding form 13 applies to A-Z
IdnMap(ch) == IF ch >= 65 /\ ch <= 90 THEN <<ch + 32>> ELSE <<>>

\* the mapping of ch in the decomposition table of the form, <<>> for none
TableDecomp(form, ch) ==
    IF CanonDecomp(ch) # <<>> THEN CanonDecomp(ch)
    ELSE IF Compat(form) /\ CompatDecomp(ch) # <<>> THEN CompatDecomp(ch)
    ELSE IF form = 13 THEN IdnMap(ch)
    ELSE <<>>

IsHangulSyllable(ch) == ch >= HANGUL_SBASE /\ ch < HANGUL_SBASE + HANGUL_SCOUNT

\* U+0378 stands for the unassigned code points
Unassigned(ch) == ch = 888

\* the property byte of ch: 0xff for a character the table has no entry for
\* (the null character, the Hangul ranges), 0x7f for an unassigned one, 0xbf
\* for one the form never leaves in place, the class index with 0x80 (and
\* 0x40 where it may combine with what precedes it) for a combining mark
get_char_props(info, ch) ==
    IF ch = 0 THEN 255
    ELSE IF IsHangulSyllable(ch) THEN 255
    ELSE IF ch >= HANGUL_LBASE /\ ch < HANGUL_LBASE + 256 THEN 255
    ELSE IF Unassigned(ch) THEN 127
    ELSE IF ClassIndex(ch) # 0
    THEN 128 + ClassIndex(ch) + (IF Composing(FormOf(info)) THEN 64 ELSE 0)
    ELSE IF TableDecomp(FormOf(info), ch) = <<>> THEN 0
    ELSE IF Composing(FormOf(info)) /\ CanonDecomp(ch) # <<>> THEN 0
    ELSE 191

\* get_combining_class: the canonical combining class of ch
get_combining_class(info, ch) == NormClasses[ClassIndex(ch) + 1]

\* the arithmetic decomposition of a Hangul syllable
HangulDecomp(ch) ==
    LET sindex == ch - HANGUL_SBASE
        l == HANGUL_LBASE + (sindex \div HANGUL_NCOUNT)
        v == HANGUL_VBASE + ((sindex % HANGUL_NCOUNT) \div HANGUL_TCOUNT)
        t == HANGUL_TBASE + (sindex % HANGUL_TCOUNT)
    IN  IF t = HANGUL_TBASE THEN <<l, v>> ELSE <<l, v, t>>

\* get_decomposition: the code units ch decomposes to, itself where it has no
\* decomposition, <<>> (the null pointer) where the table has no entry for it
get_decomposition(info, ch) ==
    IF IsHangulSyllable(ch) THEN HangulDecomp(ch)
    ELSE IF get_char_props(info, ch) = 255
    THEN IF ch # 0 THEN put_utf16(ch) ELSE <<>>
    ELSE IF TableDecomp(FormOf(info), ch) # <<>> THEN TableDecomp(FormOf(info), ch)
    ELSE put_utf16(ch)

\* one turn of the loop of canonical_order_string over the pair at i: marks
\* of a run are put in the order of their classes, marks of the same class
\* keeping their order
canonical_order_turn(s) ==
    IF s.i >= Len(s.str) THEN [s EXCEPT !.at = "end"]
    ELSE IF /\ ClassIndex(s.str[s.i + 1]) # 0
            /\ ClassIndex(s.str[s.i]) > ClassIndex(s.str[s.i + 1])
    THEN [s EXCEPT !.str = [s.str EXCEPT ![s.i] = s.str[s.i + 1],
                                         ![s.i + 1] = s.str[s.i]],
                   !.i = IF s.i > 1 THEN s.i - 1 ELSE 1]
    ELSE [s EXCEPT !.i = s.i + 1]

RECURSIVE canonical_order_run(_, _)
\* the loop goes on from s for n turns more unless it has ended
canonical_order_more(s, n) ==
    IF s.at # "run" THEN s ELSE canonical_order_run(s, n)

\* n turns of the loop from s on, or as many as it makes
canonical_order_run(s, n) ==
    IF n <= 1 THEN canonical_order_turn(s)
    ELSE canonical_order_more(canonical_order_run(s, n \div 2), n - (n \div 2))

\* canonical_order_string: the string in canonical order; the loop makes at
\* most one turn for each code unit and two for each pair out of order
canonical_order_string(str, i) ==
    canonical_order_run([at |-> "run", str |-> str, i |-> i],
                        Len(str) * Len(str) + Len(str) + 1).str

\* the loop of decompose_string at src_pos once get_utf16 gave a code point
\* and get_decomposition its mapping: "next" with the code units to append
\* and the new src_pos, "break" at the final null, or the status returned
\* with the value left in *dst_len
decompose_put(info, src_len, cap, src_pos, out, g, decomp) ==
    IF decomp = <<>>
    THEN \* allow final null
         IF g.ch = 0 /\ src_pos = src_len - 1 /\ Len(out) < cap
         THEN [at |-> "break", add |-> <<0>>, pos |-> src_pos]
         ELSE [at |-> "STATUS_NO_UNICODE_TRANSLATION", add |-> <<>>, pos |-> src_pos]
    ELSE IF Len(out) + Len(decomp) > cap
    THEN [at |-> "STATUS_BUFFER_TOO_SMALL", add |-> <<>>,
          pos |-> cap + (src_len - src_pos) * len_factor(info)]
    ELSE [at |-> "next", add |-> decomp, pos |-> src_pos + g.len]

\* one turn of the loop of decompose_string at src_pos, g being what
\* get_utf16 gave there
decompose_step(info, src, src_len, cap, src_pos, out, g) ==
    IF g.len = 0
    THEN [at |-> "STATUS_NO_UNICODE_TRANSLATION", add |-> <<>>,
          pos |-> src_pos + (IF IS_HIGH_SURROGATE(src[src_pos + 1]) THEN 1 ELSE 0)]
    ELSE decompose_put(info, src_len, cap, src_pos, out, g,
                       get_decomposition(info, g.ch))

\* the loop of decompose_string after the step st made from s: src_pos and
\* what dst holds; at is "run" while the loop goes on
decompose_next(s, st) ==
    IF st.at = "next"
    THEN [at |-> "run", pos |-> st.pos, out |-> s.out \o st.add]
    ELSE [at |-> st.at, pos |-> st.pos, out |-> s.out \o st.add]

\* one turn of the loop of decompose_string, its test included
decompose_turn(info, src, src_len, cap, s) ==
    IF s.pos >= src_len THEN [s EXCEPT !.at = "end"]
    ELSE decompose_next(s,
             decompose_step(info, src, src_len, cap, s.pos, s.out,
                            get_utf16(src, s.pos + 1, src_len - s.pos)))

RECURSIVE decompose_run(_, _, _, _, _, _)
\* the loop goes on from s for n turns more unless it has ended
decompose_more(info, src, src_len, cap, s, n) ==
    IF s.at # "run" THEN s ELSE decompose_run(info, src, src_len, cap, s, n)

\* n turns of the loop from s on, or as many as it makes
decompose_run(info, src, src_len, cap, s, n) ==
    IF n <= 1 THEN decompose_turn(info, src, src_len, cap, s)
    ELSE decompose_more(info, src, src_len, cap,
                        decompose_run(info, src, src_len, cap, s, n \div 2),
                        n - (n \div 2))

\* the end of decompose_string: what was stored is put in canonical order
decompose_order(s) ==
    IF s.at \in {"end", "break"}
    THEN [status |-> "STATUS_SUCCESS", len |-> Len(s.out),
          out |-> canonical_order_string(s.out, 1)]
    ELSE [status |-> s.at, len |-> s.pos, out |-> s.out]

\* decompose_string( info, src, src_len, dst, &dst_len ) with *dst_len = cap:
\* the status, the new *dst_len and what dst holds; the loop makes at most
\* one turn for each code unit of src and one to end
decompose_string(info, src, src_len, cap) ==
    decompose_order(decompose_run(info, src, src_len, cap,
                                  [at |-> "run", pos |-> 0, out |-> <<>>],
                                  src_len + 1))

\* compose_chars: the composition of a starter and a following character, 0
\* for none; Hangul L+V and LV+T by arithmetic, the others from the table
compose_chars(info, start_ch, ch) ==
    IF /\ start_ch >= HANGUL_LBASE /\ start_ch < HANGUL_LBASE + HANGUL_LCOUNT
       /\ ch >= HANGUL_VBASE /\ ch < HANGUL_VBASE + HANGUL_VCOUNT
    THEN HANGUL_SBASE + ((start_ch - HANGUL_LBASE) * HANGUL_VCOUNT
                         + (ch - HANGUL_VBASE)) * HANGUL_TCOUNT
    ELSE IF /\ IsHangulSyllable(start_ch)
            /\ (start_ch - HANGUL_SBASE) % HANGUL_TCOUNT = 0
            /\ ch > HANGUL_TBASE /\ ch < HANGUL_TBASE + HANGUL_TCOUNT
    THEN start_ch + (ch - HANGUL_TBASE)
    ELSE CASE start_ch = 101 /\ ch = 769 -> 233
           [] start_ch = 117 /\ ch = 776 -> 252
           [] start_ch = 85 /\ ch = 776 -> 220
           [] start_ch = 220 /\ ch = 772 -> 469
           [] start_ch = 101 /\ ch = 803 -> 7865
           [] OTHER -> 0

\* one turn of the loop of compose_string at s.i, where get_utf16 gave g, the
\* character has the class given and composes with the starter to comp (0
\* for none): the string, the index the loop goes on from, start_ch,
\* last_starter and prev_class after it
compose_put(s, g, class, comp) ==
    IF comp = 0
    THEN [at |-> "run", str |-> s.str, i |-> s.i + g.len,
          start_ch |-> IF class = 0 THEN g.ch ELSE s.start_ch,
          last_starter |-> IF class = 0 THEN s.i ELSE s.last_starter,
          prev_class |-> class]
    ELSE [at |-> "run",
          str |-> SubSeq(s.str, 1, s.last_starter) \o put_utf16(comp)
                    \o SubSeq(s.str,
                              s.last_starter + (IF s.start_ch >= 65536 THEN 2 ELSE 1) + 1,
                              s.i)
                    \o SubSeq(s.str, s.i + g.len + 1, Len(s.str)),
          i |-> s.last_starter + (IF comp >= 65536 THEN 2 ELSE 1),
          start_ch |-> comp, last_starter |-> s.last_starter,
          prev_class |-> s.prev_class]

\* the test that decides whether the character at s.i is composed
compose_test(info, s, g, class) ==
    compose_put(s, g, class,
                IF s.last_starter = NULL \/ (s.prev_class # 0 /\ s.prev_class >= class)
                THEN 0
                ELSE compose_chars(info, s.start_ch, g.ch))

\* one turn of the loop of compose_string at s.i, g being what get_utf16 gave
\* there; at is "fail" where it gave nothing and 0 is returned
compose_step(info, s, g) ==
    IF g.len = 0 THEN [s EXCEPT !.at = "fail"]
    ELSE compose_test(info, s, g, get_combining_class(info, g.ch))

\* one turn of the loop of compose_string, its test included
compose_turn(info, s) ==
    IF s.i >= Len(s.str) THEN [s EXCEPT !.at = "end"]
    ELSE compose_step(info, s, get_utf16(s.str, s.i + 1, Len(s.str) - s.i))

RECURSIVE compose_run(_, _, _)
\* the loop goes on from s for n turns more unless it has ended
compose_more(info, s, n) == IF s.at # "run" THEN s ELSE compose_run(info, s, n)

\* n turns of the loop from s on, or as many as it makes
compose_run(info, s, n) ==
    IF n <= 1 THEN compose_turn(info, s)
    ELSE compose_more(info, compose_run(info, s, n \div 2), n - (n \div 2))

\* what compose_string leaves in str, <<>> where it returns 0
compose_result(s) == IF s.at = "fail" THEN <<>> ELSE s.str

\* compose_string( info, str, srclen ): the composed string, whose length is
\* the value returned; last_starter is NULL until a starter has been seen.
\* A turn moves on or makes the string shorter and goes back in it
compose_string(info, str) ==
    compose_result(
        compose_run(info,
                    [at |-> "run", str |-> str, i |-> 0, start_ch |-> 0,
                     last_starter |-> NULL, prev_class |-> 0],
                    Len(str) * Len(str) + Len(str) + 1))

\* load_norm_table as one thread sees it when no other is in it: the cached
\* table, or the failure of NtGetNlsSectionPtr for a form no section exists for
load_norm_table(form) ==
    IF form = 0 THEN [status |-> "STATUS_INVALID_PARAMETER", info |-> NULL]
    ELSE IF form >= 16 THEN [status |-> "STATUS_OBJECT_NAME_NOT_FOUND", info |-> NULL]
    ELSE IF norm_tables[form] = NULL
    THEN [status |-> "STATUS_OBJECT_NAME_NOT_FOUND", info |-> NULL]
    ELSE [status |-> "STATUS_SUCCESS", info |-> norm_tables[form]]

\* wcslen: the number of code units before the first null
wcslen(str) == (CHOOSE k \in 1..Len(str) : str[k] = 0 /\ \A j \in 1..(k - 1) : str[j] # 0) - 1

RECURSIVE NormalizeRetry(_, _, _, _, _)
RECURSIVE NormalizeRetryOn(_, _, _, _, _)
\* the allocate-decompose loop of RtlNormalizeString after decompose_string
\* returned d
NormalizeRetryOn(info, src, src_len, heap, d) ==
    IF d.status # "STATUS_BUFFER_TOO_SMALL" THEN d
    ELSE NormalizeRetry(info, src, src_len, d.len, heap - 1)

\* the allocate-decompose loop of RtlNormalizeString; heap is the number of
\* allocations RtlAllocateHeap still satisfies
NormalizeRetry(info, src, src_len, buf_len, heap) ==
    IF heap = 0 THEN [status |-> "STATUS_NO_MEMORY", len |-> buf_len, out |-> <<>>]
    ELSE NormalizeRetryOn(info, src, src_len, heap,
                          decompose_string(info, src, src_len, buf_len))

\* the estimate RtlNormalizeString returns when *dst_len is 0
NormalizeEstimate(info, src_len) ==
    IF src_len * len_factor(info) > 64
    THEN Max(64, src_len + (src_len \div 8))
    ELSE src_len * len_factor(info)

\* the end of RtlNormalizeString for a composing form: buf holds the composed
\* string c
NormalizeCopy(c, dst_len) ==
    IF dst_len >= Len(c)
    THEN [status |-> "STATUS_SUCCESS", reslen |-> Len(c), out |-> c]
    ELSE [status |-> "STATUS_BUFFER_TOO_SMALL", reslen |-> Len(c), out |-> <<>>]

\* RtlNormalizeString for a composing form after the loop ended with d
NormalizeCompose(info, d, dst_len) ==
    IF d.status = "STATUS_NO_MEMORY"
    THEN [status |-> d.status, reslen |-> dst_len, out |-> <<>>]
    ELSE IF d.status # "STATUS_SUCCESS"
    THEN [status |-> d.status, reslen |-> d.len, out |-> <<>>]
    ELSE NormalizeCopy(compose_string(info, d.out), dst_len)

\* what decompose_string returned, as RtlNormalizeString returns it
NormalizeDecomposed(d) == [status |-> d.status, reslen |-> d.len, out |-> d.out]

\* RtlNormalizeString after load_norm_table returned l
NormalizeLoaded(l, src, src_len, dst_len, heap) ==
    IF l.status # "STATUS_SUCCESS"
    THEN [status |-> l.status, reslen |-> dst_len, out |-> <<>>]
    ELSE IF dst_len = 0
    THEN [status |-> "STATUS_SUCCESS",
          reslen |-> NormalizeEstimate(l.info, src_len), out |-> <<>>]
    ELSE IF src_len = 0
    THEN [status |-> "STATUS_SUCCESS", reslen |-> 0, out |-> <<>>]
    ELSE IF comp_size(l.info) = 0
    THEN NormalizeDecomposed(decompose_string(l.info, src, src_len, dst_len))
    ELSE NormalizeCompose(l.info,
                          NormalizeRetry(l.info, src, src_len, src_len * 4, heap),
                          dst_len)

\* RtlNormalizeString( form, src, src_len, dst, &dst_len )
RtlNormalizeString(form, src, src_len, dst_len, heap) ==
    NormalizeLoaded(load_norm_table(form), src,
                    IF src_len = -1 THEN wcslen(src) + 1 ELSE src_len,
                    dst_len, heap)

(***************************************************************************)
(* IDN: RtlIdnToNameprepUnicode, RtlIdnToAscii, RtlIdnToUnicode.           *)
(* A result is [status, reslen, out]: the status, *dstlen on return and    *)
(* what was written to dst.  src is never the null pointer here.           *)
(***************************************************************************)
IDN_ALLOW_UNASSIGNED == 1
IDN_USE_STD3_ASCII_RULES == 2

\* flags & flag
HasFlag(flags, flag) == (flags \div flag) % 2 = 1

\* an array of size code units read at index k (from 0): past what was stored
\* in it, whatever the stack held (junk)
ArrayAt(buf, k, junk) == IF k >= 0 /\ k < Len(buf) THEN buf[k + 1] ELSE junk

\* a-z, A-Z, 0-9 and '-'
IsLDH(ch) ==
    \/ ch >= 97 /\ ch <= 122
    \/ ch >= 65 /\ ch <= 90
    \/ ch >= 48 /\ ch <= 57
    \/ ch = 45

Failed(status, dstlen) == [status |-> status, reslen |-> dstlen, out |-> <<>>]

\* check_invalid_chars( info, flags, buffer, len ): TRUE where the loop or the
\* test after it returns TRUE; buffer holds code points
check_invalid_chars(info, flags, buffer) ==
    \/ \E i \in 1..Len(buffer) :
          \/ /\ buffer[i] \in {8204, 8205}      \* 0x200c, 0x200d
             /\ (i = 1 \/ get_combining_class(info, buffer[i - 1]) # 9)
          \/ /\ buffer[i] \in {8800, 8814, 8815}   \* 0x2260, 0x226e, 0x226f
             /\ HasFlag(flags, IDN_USE_STD3_ASCII_RULES)
          \/ get_char_props(info, buffer[i]) = 191
          \/ /\ get_char_props(info, buffer[i]) = 255
             /\ ~(buffer[i] >= HANGUL_SBASE /\ buffer[i] < HANGUL_SBASE + 11264)
          \/ /\ get_char_props(info, buffer[i]) = 127
             /\ ~HasFlag(flags, IDN_ALLOW_UNASSIGNED)
    \/ /\ HasFlag(flags, IDN_USE_STD3_ASCII_RULES)
       /\ Len(buffer) # 0
       /\ (buffer[1] = 45 \/ buffer[Len(buffer)] = 45)

\* the indexes below srclen of the code units outside 0x20..0x7e
NonAscii(src, srclen) ==
    {k \in 0..(srclen - 1) : src[k + 1] < 32 \/ src[k + 1] >= 127}

\* the least of a set of indexes, last for the empty set
LeastIndex(at, last) ==
    IF at = {} THEN last ELSE CHOOSE k \in at : \A j \in at : k <= j

\* for (i = 0; i < srclen; i++) if (src[i] < 0x20 || src[i] >= 0x7f) break;
AsciiRun(src, srclen, i) == LeastIndex(NonAscii(src, srclen), srclen)

\* mutant: a '.' that ends an empty label is let through
NameprepStep_NoEmptyTest(info, flags, buf, i, start, g) ==
    IF g.len = 0 \/ g.ch = 0 THEN [at |-> "break", i |-> i, start |-> start]
    ELSE IF g.ch = 46
    THEN IF \/ i - start > 63
            \/ /\ HasFlag(flags, IDN_USE_STD3_ASCII_RULES) /\ start # i
               /\ (buf[start + 1] = 45 \/ buf[i] = 45)
         THEN [at |-> "invalid", i |-> i, start |-> start]
         ELSE [at |-> "run", i |-> i + g.len, start |-> i + 1]
    ELSE IF HasFlag(flags, IDN_USE_STD3_ASCII_RULES)
    THEN IF IsLDH(g.ch) THEN [at |-> "run", i |-> i + g.len, start |-> start]
         ELSE [at |-> "invalid", i |-> i, start |-> start]
    ELSE IF ~HasFlag(flags, IDN_ALLOW_UNASSIGNED) /\ get_char_props(info, g.ch) = 127
    THEN [at |-> "invalid", i |-> i, start |-> start]
    ELSE [at |-> "run", i |-> i + g.len, start |-> start]

\* one turn of the label loop of RtlIdnToNameprepUnicode at i, g being what
\* get_utf16 gave there: "run" with the new i and start, "break" where the
\* loop is left, "invalid" where STATUS_INVALID_IDN_NORMALIZATION is returned
NameprepStep(info, flags, buf, i, start, g) ==
    IF g.len = 0 \/ g.ch = 0 THEN [at |-> "break", i |-> i, start |-> start]
    ELSE IF g.ch = 46
    THEN IF \/ start = i
            \/ i - start > 63
            \/ /\ HasFlag(flags, IDN_USE_STD3_ASCII_RULES)
               /\ (buf[start + 1] = 45 \/ buf[i] = 45)
         THEN [at |-> "invalid", i |-> i, start |-> start]
         ELSE [at |-> "run", i |-> i + g.len, start |-> i + 1]
    ELSE IF HasFlag(flags, IDN_USE_STD3_ASCII_RULES)
    THEN IF IsLDH(g.ch) THEN [at |-> "run", i |-> i + g.len, start |-> start]
         ELSE [at |-> "invalid", i |-> i, start |-> start]
    ELSE IF ~HasFlag(flags, IDN_ALLOW_UNASSIGNED) /\ get_char_props(info, g.ch) = 127
    THEN [at |-> "invalid", i |-> i, start |-> start]
    ELSE [at |-> "run", i |-> i + g.len, start |-> start]

\* one turn of the label loop of RtlIdnToNameprepUnicode, its test included
NameprepTurn(info, flags, buf, s) ==
    IF s.i >= Len(buf) THEN [s EXCEPT !.at = "end"]
    ELSE NameprepStep(info, flags, buf, s.i, s.start,
                      get_utf16(buf, s.i + 1, Len(buf) - s.i))

RECURSIVE NameprepRun(_, _, _, _, _)
\* the loop goes on from s for n turns more unless it has ended
NameprepMore(info, flags, buf, s, n) ==
    IF s.at # "run" THEN s ELSE NameprepRun(info, flags, buf, s, n)

\* n turns of the loop from s on, or as many as it makes
NameprepRun(info, flags, buf, s, n) ==
    IF n <= 1 THEN NameprepTurn(info, flags, buf, s)
    ELSE NameprepMore(info, flags, buf,
                      NameprepRun(info, flags, buf, s, n \div 2), n - (n \div 2))

\* how the label loop ended: whether it returned
\* STATUS_INVALID_IDN_NORMALIZATION, and i and start where it was left
NameprepEnded(s) == [bad |-> s.at = "invalid", i |-> s.i, start |-> s.start]

\* the label loop of RtlIdnToNameprepUnicode over buf from i on; it makes at
\* most one turn for each code unit of buf and one to end
NameprepLabels(info, flags, buf, i, start) ==
    NameprepEnded(NameprepRun(info, flags, buf,
                              [at |-> "run", i |-> i, start |-> start],
                              Len(buf) + 1))

\* the end of RtlIdnToNameprepUnicode with the test of the capacity made
\* strict
NameprepFinish_Strict(flags, buf, dstlen, junk, r) ==
    IF r.bad \/ r.i = 0 \/ r.i - r.start > 63
    THEN Failed("STATUS_INVALID_IDN_NORMALIZATION", dstlen)
    ELSE IF /\ HasFlag(flags, IDN_USE_STD3_ASCII_RULES)
            /\ \/ ArrayAt(buf, r.start, junk) = 45
               \/ ArrayAt(buf, r.i - 1, junk) = 45
    THEN Failed("STATUS_INVALID_IDN_NORMALIZATION", dstlen)
    ELSE IF dstlen # 0 /\ ~(Len(buf) < dstlen)
    THEN [status |-> "STATUS_BUFFER_TOO_SMALL", reslen |-> Len(buf), out |-> <<>>]
    ELSE [status |-> "STATUS_SUCCESS", reslen |-> Len(buf),
          out |-> IF dstlen # 0 THEN buf ELSE <<>>]

\* the end of RtlIdnToNameprepUnicode, the label loop having ended with r
NameprepFinish(flags, buf, dstlen, junk, r) ==
    IF r.bad \/ r.i = 0 \/ r.i - r.start > 63
    THEN Failed("STATUS_INVALID_IDN_NORMALIZATION", dstlen)
    ELSE IF /\ HasFlag(flags, IDN_USE_STD3_ASCII_RULES)
            /\ \/ ArrayAt(buf, r.start, junk) = 45
               \/ ArrayAt(buf, r.i - 1, junk) = 45
    THEN Failed("STATUS_INVALID_IDN_NORMALIZATION", dstlen)
    ELSE IF dstlen # 0 /\ ~(Len(buf) <= dstlen)
    THEN [status |-> "STATUS_BUFFER_TOO_SMALL", reslen |-> Len(buf), out |-> <<>>]
    ELSE [status |-> "STATUS_SUCCESS", reslen |-> Len(buf),
          out |-> IF dstlen # 0 THEN buf ELSE <<>>]

\* RtlIdnToNameprepUnicode from the label loop on, buf holding buflen units
NameprepCheck(info, flags, buf, dstlen, junk) ==
    NameprepFinish(flags, buf, dstlen, junk, NameprepLabels(info, flags, buf, 0, 0))

\* what RtlIdnToNameprepUnicode makes of the status n of RtlNormalizeString
NameprepNormalized(n) ==
    IF n.status = "STATUS_NO_UNICODE_TRANSLATION"
    THEN [n EXCEPT !.status = "STATUS_INVALID_IDN_NORMALIZATION"]
    ELSE n

\* mutant: buf is filled by RtlNormalizeString whatever src holds
NameprepFill_Normalized(src, srclen, heap, i) ==
    NameprepNormalized(RtlNormalizeString(13, src, srclen, 256, heap))

\* how RtlIdnToNameprepUnicode fills buf, i being where the scan for a code
\* unit outside 0x20..0x7e stopped: the status and what buf holds
NameprepFill(src, srclen, heap, i) ==
    IF i = srclen \/ (i = srclen - 1 /\ src[i + 1] = 0)    \* ascii only
    THEN IF srclen > 256
         THEN Failed("STATUS_INVALID_IDN_NORMALIZATION", 256)
         ELSE [status |-> "STATUS_SUCCESS", reslen |-> srclen,
               out |-> SubSeq(src, 1, srclen)]
    ELSE NameprepNormalized(RtlNormalizeString(13, src, srclen, 256, heap))

\* RtlIdnToNameprepUnicode after load_norm_table returned l and buf was
\* filled as f tells
NameprepLoaded(l, flags, dstlen, junk, f) ==
    IF l.status # "STATUS_SUCCESS" THEN Failed(l.status, dstlen)
    ELSE IF f.status # "STATUS_SUCCESS" THEN Failed(f.status, dstlen)
    ELSE NameprepCheck(l.info, flags, f.out, dstlen, junk)

\* RtlIdnToNameprepUnicode once srclen is the number of code units of src
NameprepSized(flags, src, srclen, dstlen, heap, junk) ==
    NameprepLoaded(load_norm_table(13), flags, dstlen, junk,
                   NameprepFill(src, srclen, heap, AsciiRun(src, srclen, 0)))

\* RtlIdnToNameprepUnicode( flags, src, srclen, dst, &dstlen )
RtlIdnToNameprepUnicode(flags, src, srclen, dstlen, heap, junk) ==
    IF flags >= 4 \/ srclen < -1 THEN Failed("STATUS_INVALID_PARAMETER", dstlen)
    ELSE NameprepSized(flags, src,
                       IF srclen = -1 THEN wcslen(src) + 1 ELSE srclen,
                       dstlen, heap, junk)

\* Punycode parameters
BASE == 36
TMIN == 1
TMAX == 26
SKEW == 38
DAMP == 700

\* t = k <= bias ? TMIN : k >= bias + TMAX ? TMAX : k - bias
Threshold(k, bias) ==
    IF k <= bias THEN TMIN ELSE IF k >= bias + TMAX THEN TMAX ELSE k - bias

RECURSIVE AdaptLoop(_, _)
\* for (k = 0; delta > ((BASE - TMIN) * TMAX) / 2; k += BASE) delta /= BASE - TMIN;
AdaptLoop(delta, k) ==
    IF delta > ((BASE - TMIN) * TMAX) \div 2
    THEN AdaptLoop(delta \div (BASE - TMIN), k + BASE)
    ELSE [delta |-> delta, k |-> k]

\* bias = k + ((BASE - TMIN + 1) * delta) / (delta + SKEW)
AdaptBias(a) == a.k + (((BASE - TMIN + 1) * a.delta) \div (a.delta + SKEW))

\* delta += delta / (h + 1) and the loop after it
AdaptDamped(d1, points) == AdaptBias(AdaptLoop(d1 + (d1 \div points), 0))

\* mutant: the first delta of a label is halved, not divided by DAMP
Adapt_NoDamp(delta, first, points) ==
    AdaptDamped(delta \div 2, points)

\* the new bias after a code point was coded with delta, first telling the
\* first one of the label, points being the code points handled so far
Adapt(delta, first, points) ==
    AdaptDamped(delta \div (IF first THEN DAMP ELSE 2), points)

\* disp <= 25 ? 'a' + disp : '0' + disp - 26
DigitChar(disp) == IF disp <= 25 THEN 97 + disp ELSE 48 + disp - 26

RECURSIVE EncodeDigits(_, _, _, _)
RECURSIVE EncodeDigit(_, _, _, _, _)
\* one turn of the digit loop of the encoder, t being its threshold
EncodeDigit(q, k, bias, res, t) ==
    IF Len(res) + 1 > 256 THEN [bad |-> TRUE, res |-> res]
    ELSE IF q < t THEN [bad |-> FALSE, res |-> Append(res, DigitChar(q))]
    ELSE EncodeDigits((q - t) \div (BASE - t), k + BASE, bias,
                      Append(res, DigitChar(t + ((q - t) % (BASE - t)))))

\* the digits of delta q appended to res, an array of 256 code units
EncodeDigits(q, k, bias, res) == EncodeDigit(q, k, bias, res, Threshold(k, bias))

\* the encoder at a code point equal to n, its digits having been put as e
\* tells
EncodeInnerPut(s, b, e) ==
    IF e.bad THEN [s EXCEPT !.at = "bad"]
    ELSE [at |-> "run", i |-> s.i + 1, bias |-> Adapt(s.delta, s.h = b, s.h + 1),
          delta |-> 0, h |-> s.h + 1, res |-> e.res]

\* one turn of for (i = 0; i < buflen; i++) of the encoder, its test included
EncodeInnerTurn(buffer, n, b, s) ==
    IF s.i >= Len(buffer) THEN [s EXCEPT !.at = "end"]
    ELSE IF buffer[s.i + 1] = n
    THEN EncodeInnerPut(s, b, EncodeDigits(s.delta, BASE, s.bias, s.res))
    ELSE [s EXCEPT !.i = s.i + 1,
                   !.delta = IF buffer[s.i + 1] < n THEN s.delta + 1 ELSE s.delta]

RECURSIVE EncodeInnerRun(_, _, _, _, _)
\* the loop goes on from s for k turns more unless it has ended
EncodeInnerMore(buffer, n, b, s, k) ==
    IF s.at # "run" THEN s ELSE EncodeInnerRun(buffer, n, b, s, k)

\* k turns of the loop from s on, or as many as it makes
EncodeInnerRun(buffer, n, b, s, k) ==
    IF k <= 1 THEN EncodeInnerTurn(buffer, n, b, s)
    ELSE EncodeInnerMore(buffer, n, b,
                         EncodeInnerRun(buffer, n, b, s, k \div 2), k - (k \div 2))

\* for (i = 0; i < buflen; i++) of the encoder, from i on
EncodeInner(buffer, i, n, bias, delta, h, b, res) ==
    EncodeInnerRun(buffer, n, b,
                   [at |-> "run", i |-> i, bias |-> bias, delta |-> delta,
                    h |-> h, res |-> res],
                   Len(buffer) + 1)

\* the code points of the label not below n
PointsAbove(buffer, n) == {c \in {buffer[i] : i \in 1..Len(buffer)} : c >= n}

\* the least of a set of code points, 0x10ffff for the empty set
LeastPoint(above) ==
    IF above = {} THEN 1114111
    ELSE CHOOSE m \in above : \A x \in above : m <= x

\* the least code point of the label not below n, 0x10ffff for none
MinAbove(buffer, n) == LeastPoint(PointsAbove(buffer, n))

\* for (h = b; h < buflen; delta++, n++) of the encoder after the inner loop
\* for m ended with e
EncodeOuterNext(s, m, e) ==
    IF e.at = "bad" THEN [s EXCEPT !.at = "bad"]
    ELSE [at |-> "run", n |-> m + 1, bias |-> e.bias, delta |-> e.delta + 1,
          h |-> e.h, res |-> e.res]

\* one turn of that loop, m being the least code point not below n
EncodeOuterAt(buffer, b, s, m) ==
    EncodeOuterNext(s, m,
        EncodeInner(buffer, 0, m, s.bias, s.delta + (m - s.n) * (s.h + 1), s.h, b,
                    s.res))

\* one turn of that loop, its test included
EncodeOuterTurn(buffer, b, s) ==
    IF ~(s.h < Len(buffer)) THEN [s EXCEPT !.at = "end"]
    ELSE EncodeOuterAt(buffer, b, s, MinAbove(buffer, s.n))

RECURSIVE EncodeOuterRun(_, _, _, _)
\* the loop goes on from s for k turns more unless it has ended
EncodeOuterMore(buffer, b, s, k) ==
    IF s.at # "run" THEN s ELSE EncodeOuterRun(buffer, b, s, k)

\* k turns of the loop from s on, or as many as it makes
EncodeOuterRun(buffer, b, s, k) ==
    IF k <= 1 THEN EncodeOuterTurn(buffer, b, s)
    ELSE EncodeOuterMore(buffer, b, EncodeOuterRun(buffer, b, s, k \div 2),
                         k - (k \div 2))

\* how that loop ended: whether res[] was full, and what res[] holds
EncodeOuterEnded(s) == [bad |-> s.at = "bad", res |-> s.res]

\* for (h = b; h < buflen; delta++, n++) of the encoder; every turn codes a
\* code point of the label at least
EncodeOuter(buffer, n, bias, delta, h, b, res) ==
    EncodeOuterEnded(
        EncodeOuterRun(buffer, b,
                       [at |-> "run", n |-> n, bias |-> bias, delta |-> delta,
                        h |-> h, res |-> res],
                       Len(buffer) + 1))

\* one turn of the first loop over a label of RtlIdnToAscii at s.i, g being
\* what get_utf16 gave there; "over" where the loop stores past buffer[63]
LabelScanAt(s, g) ==
    IF g.len = 0 \/ g.ch = 0 \/ g.ch = 46 THEN [s EXCEPT !.at = "end"]
    ELSE IF Len(s.buffer) >= 64 THEN [s EXCEPT !.at = "over"]
    ELSE [at |-> "run", i |-> s.i + g.len, buffer |-> Append(s.buffer, g.ch)]

\* one turn of that loop, its test included
LabelScanTurn(normstr, s) ==
    IF s.i >= Len(normstr) THEN [s EXCEPT !.at = "end"]
    ELSE LabelScanAt(s, get_utf16(normstr, s.i + 1, Len(normstr) - s.i))

RECURSIVE LabelScanRun(_, _, _)
\* the loop goes on from s for k turns more unless it has ended
LabelScanMore(normstr, s, k) ==
    IF s.at # "run" THEN s ELSE LabelScanRun(normstr, s, k)

\* k turns of the loop from s on, or as many as it makes
LabelScanRun(normstr, s, k) ==
    IF k <= 1 THEN LabelScanTurn(normstr, s)
    ELSE LabelScanMore(normstr, LabelScanRun(normstr, s, k \div 2), k - (k \div 2))

\* how that loop ended
LabelScanEnded(s) == [end |-> s.i, buffer |-> s.buffer, over |-> s.at = "over"]

\* the first loop over a label of RtlIdnToAscii, from i on: where it ends and
\* the code points it put in buffer; over is TRUE where the loop stores past
\* buffer[63]
LabelScan(normstr, i, buffer) ==
    LabelScanEnded(LabelScanRun(normstr,
                                [at |-> "run", i |-> i, buffer |-> buffer],
                                Len(normstr) + 1))

\* b of that loop: it counts the code points below 0x80 put in buffer
BasicCount(buffer) == Cardinality({k \in 1..Len(buffer) : buffer[k] < 128})

\* the code units below 0x80 of a label, in order
BasicUnits(label) == SelectSeq(label, LAMBDA u : u < 128)

\* a label of RtlIdnToAscii after the encoder ended with enc
AsciiLabelEncoded(normstr, s, end, enc) ==
    IF \/ enc.bad
       \/ Len(enc.res) - Len(s.res) > 63
       \/ end < Len(normstr) /\ Len(enc.res) + 1 > 256
    THEN [s EXCEPT !.at = "STATUS_INVALID_IDN_NORMALIZATION"]
    ELSE [at |-> "run", start |-> end + 1,
          res |-> IF end < Len(normstr) THEN Append(enc.res, normstr[end + 1])
                  ELSE enc.res]

\* a label of RtlIdnToAscii from s.start to end, buffer holding its code
\* points, b of them below 0x80
AsciiLabelScanned(info, flags, normstr, s, end, buffer, b) ==
    IF b = end - s.start
    THEN IF Len(s.res) + b + (IF end < Len(normstr) THEN 1 ELSE 0) > 256
         THEN [s EXCEPT !.at = "STATUS_INVALID_IDN_NORMALIZATION"]
         ELSE [at |-> "run", start |-> end + 1,
               res |-> s.res \o SubSeq(normstr, s.start + 1,
                                       s.start + b
                                           + (IF end < Len(normstr) THEN 1 ELSE 0))]
    ELSE IF \/ Len(buffer) >= 4 /\ buffer[3] = 45 /\ buffer[4] = 45
            \/ check_invalid_chars(info, flags, buffer)
            \/ Len(s.res) + 5 + b > 256
    THEN [s EXCEPT !.at = "STATUS_INVALID_IDN_NORMALIZATION"]
    ELSE AsciiLabelEncoded(normstr, s, end,
             EncodeOuter(buffer, 128, 72, 0, b, b,
                         s.res \o <<120, 110, 45, 45>>
                               \o (IF b # 0
                                   THEN Append(BasicUnits(SubSeq(normstr, s.start + 1, end)),
                                               45)
                                   ELSE <<>>)))

\* a label of RtlIdnToAscii after its first loop ended with sc
AsciiLabel(info, flags, normstr, s, sc) ==
    IF sc.over THEN [s EXCEPT !.at = "BUFFER_OVERRUN"]
    ELSE AsciiLabelScanned(info, flags, normstr, s, sc.end, sc.buffer,
                           BasicCount(sc.buffer))

\* one turn of the loop over the labels of RtlIdnToAscii, its test included
AsciiLabelTurn(info, flags, normstr, s) ==
    IF ~(s.start < Len(normstr)) THEN [s EXCEPT !.at = "end"]
    ELSE AsciiLabel(info, flags, normstr, s, LabelScan(normstr, s.start, <<>>))

RECURSIVE AsciiLabelRun(_, _, _, _, _)
\* the loop goes on from s for k turns more unless it has ended
AsciiLabelMore(info, flags, normstr, s, k) ==
    IF s.at # "run" THEN s ELSE AsciiLabelRun(info, flags, normstr, s, k)

\* k turns of the loop from s on, or as many as it makes
AsciiLabelRun(info, flags, normstr, s, k) ==
    IF k <= 1 THEN AsciiLabelTurn(info, flags, normstr, s)
    ELSE AsciiLabelMore(info, flags, normstr,
                        AsciiLabelRun(info, flags, normstr, s, k \div 2),
                        k - (k \div 2))

\* how the loop over the labels ended: the status, and what res[] holds
AsciiLabelsEnded(s) ==
    [status |-> IF s.at = "end" THEN "STATUS_SUCCESS" ELSE s.at, res |-> s.res]

\* the loop over the labels of RtlIdnToAscii from start on, res being what
\* was put in res[] so far; every turn moves start on
IdnToAsciiLabels(info, flags, normstr, start, res) ==
    AsciiLabelsEnded(
        AsciiLabelRun(info, flags, normstr,
                      [at |-> "run", start |-> start, res |-> res],
                      Len(normstr) + 1))

\* the end of RtlIdnToAscii, the loop over the labels having ended with r
AsciiFinish(dstlen, r) ==
    IF r.status # "STATUS_SUCCESS" THEN Failed(r.status, dstlen)
    ELSE IF dstlen # 0 /\ ~(Len(r.res) <= dstlen)
    THEN [status |-> "STATUS_BUFFER_TOO_SMALL", reslen |-> Len(r.res), out |-> <<>>]
    ELSE [status |-> "STATUS_SUCCESS", reslen |-> Len(r.res),
          out |-> IF dstlen # 0 THEN r.res ELSE <<>>]

\* RtlIdnToAscii after load_norm_table returned l and
\* RtlIdnToNameprepUnicode n
AsciiLoaded(l, flags, dstlen, n) ==
    IF l.status # "STATUS_SUCCESS" THEN Failed(l.status, dstlen)
    ELSE IF n.status # "STATUS_SUCCESS" THEN Failed(n.status, dstlen)
    ELSE AsciiFinish(dstlen, IdnToAsciiLabels(l.info, flags, n.out, 0, <<>>))

\* RtlIdnToAscii( flags, src, srclen, dst, &dstlen )
RtlIdnToAscii(flags, src, srclen, dstlen, heap, junk) ==
    AsciiLoaded(load_norm_table(13), flags, dstlen,
                RtlIdnToNameprepUnicode(flags, src, srclen, 256, heap, junk))

\* INT_MAX: pos, w and n of the decoder are ints
INT_MAX == 2147483647

\* one turn of the first loop over a label of RtlIdnToUnicode on code unit ch
\* at i: "next", "break", or "invalid" where
\* STATUS_INVALID_IDN_NORMALIZATION is returned
UnicodeScanStep(flags, srclen, i, ch) ==
    CASE ch > 127 \/ (i # srclen - 1 /\ ch = 0) -> "invalid"
      [] ch = 46 \/ (i = srclen - 1 /\ ch = 0) -> "break"
      [] OTHER -> IF HasFlag(flags, IDN_USE_STD3_ASCII_RULES) /\ ~IsLDH(ch)
                  THEN "invalid" ELSE "next"

\* the indexes from start on where the first loop over a label of
\* RtlIdnToUnicode does not go on
ScanStops(flags, src, srclen, start) ==
    {k \in start..(srclen - 1) : UnicodeScanStep(flags, srclen, k, src[k + 1]) # "next"}

\* that loop left at end: whether it returned
\* STATUS_INVALID_IDN_NORMALIZATION there
UnicodeScanEnded(flags, src, srclen, end) ==
    [bad |-> end < srclen /\ UnicodeScanStep(flags, srclen, end, src[end + 1]) = "invalid",
     end |-> end]

\* the first loop over a label of RtlIdnToUnicode, from i on: where it ended
\* and whether it returned STATUS_INVALID_IDN_NORMALIZATION there
UnicodeScan(flags, src, srclen, i) ==
    UnicodeScanEnded(flags, src, srclen,
                     LeastIndex(ScanStops(flags, src, srclen, i), srclen))

\* delim after that loop: the index of the last '-' of src[start .. end), 0
\* where there is none
LastDelim(src, start, end) ==
    LET at == {i \in start..(end - 1) : src[i + 1] = 45}
    IN  IF at = {} THEN 0 ELSE CHOOSE i \in at : \A j \in at : j <= i

\* ch after that loop: the last code unit it read
LastRead(src, srclen, end) == IF end < srclen THEN src[end + 1] ELSE src[srclen]

\* the value of a Punycode digit, NULL for a code unit that is none
DigitValue(ch) ==
    IF ch >= 97 /\ ch <= 122 THEN ch - 97
    ELSE IF ch >= 65 /\ ch <= 90 THEN ch - 65
    ELSE IF ch >= 48 /\ ch <= 57 THEN ch - 48 + 26
    ELSE NULL

RECURSIVE DecodeDigits(_, _, _, _, _, _, _)
\* for (k = BASE; ; k += BASE) of the decoder: one generalized integer is read
\* from src[i] on and added to pos
DecodeDigits(src, end, i, k, bias, pos, w) ==
    LET digit == DigitValue(src[i + 1])
        t == Threshold(k, bias)
    IN  IF i >= end THEN [status |-> "STATUS_INVALID_IDN_NORMALIZATION", i |-> i, pos |-> pos]
        ELSE IF digit = NULL
        THEN [status |-> "STATUS_INVALID_IDN_NORMALIZATION", i |-> i, pos |-> pos]
        ELSE IF digit # 0 /\ w > (INT_MAX - pos) \div digit
        THEN [status |-> "INTEGER_OVERFLOW", i |-> i, pos |-> pos]
        ELSE IF digit < t
        THEN [status |-> "STATUS_SUCCESS", i |-> i + 1, pos |-> pos + digit * w]
        ELSE IF w > INT_MAX \div (BASE - t)
        THEN [status |-> "INTEGER_OVERFLOW", i |-> i, pos |-> pos]
        ELSE DecodeDigits(src, end, i + 1, k + BASE, bias, pos + digit * w,
                          w * (BASE - t))

\* memmove( buffer + pos + 1, buffer + pos, ... ); buffer[pos] = n
InsertAt(buffer, pos, n) ==
    SubSeq(buffer, 1, pos) \o <<n>> \o SubSeq(buffer, pos + 1, Len(buffer))

\* mutant: the code point is stored before n is advanced
DecodeInsert_StaleN(buffer, quot, n, pos) ==
    IF quot > INT_MAX - n THEN [status |-> "INTEGER_OVERFLOW", n |-> n, pos |-> pos,
                                buffer |-> buffer]
    ELSE IF Len(buffer) >= 64 - 1
    THEN [status |-> "STATUS_INVALID_IDN_NORMALIZATION", n |-> n, pos |-> pos,
          buffer |-> buffer]
    ELSE [status |-> "STATUS_SUCCESS", n |-> n + quot, pos |-> pos + 1,
          buffer |-> InsertAt(buffer, pos, n)]

\* mutant: the code point is inserted without the test of buflen
DecodeInsert_NoCap(buffer, quot, n, pos) ==
    IF quot > INT_MAX - n THEN [status |-> "INTEGER_OVERFLOW", n |-> n, pos |-> pos,
                                buffer |-> buffer]
    ELSE [status |-> "STATUS_SUCCESS", n |-> n + quot, pos |-> pos + 1,
          buffer |-> InsertAt(buffer, pos, n + quot)]

\* n += pos / (buflen + 1); pos %= buflen + 1; and the insertion of n at pos
DecodeInsert(buffer, quot, n, pos) ==
    IF quot > INT_MAX - n THEN [status |-> "INTEGER_OVERFLOW", n |-> n, pos |-> pos,
                                buffer |-> buffer]
    ELSE IF Len(buffer) >= 64 - 1
    THEN [status |-> "STATUS_INVALID_IDN_NORMALIZATION", n |-> n, pos |-> pos,
          buffer |-> buffer]
    ELSE [status |-> "STATUS_SUCCESS", n |-> n + quot, pos |-> pos + 1,
          buffer |-> InsertAt(buffer, pos, n + quot)]

\* while (i < end) of the decoder after a code point was inserted as ins tells
DecodeLoopPut(s, i, bias, ins) ==
    IF ins.status # "STATUS_SUCCESS" THEN [s EXCEPT !.at = ins.status]
    ELSE [at |-> "run", i |-> i, n |-> ins.n, bias |-> bias, pos |-> ins.pos,
          buffer |-> ins.buffer]

\* while (i < end) of the decoder after a generalized integer was read as d
\* tells
DecodeLoopNext(s, d) ==
    IF d.status # "STATUS_SUCCESS" THEN [s EXCEPT !.at = d.status]
    ELSE DecodeLoopPut(s, d.i,
                       Adapt(d.pos - s.pos, s.pos = 0, Len(s.buffer) + 1),
                       DecodeInsert(s.buffer, d.pos \div (Len(s.buffer) + 1), s.n,
                                    d.pos % (Len(s.buffer) + 1)))

\* one turn of while (i < end) of the decoder, its test included
DecodeLoopTurn(src, end, s) ==
    IF ~(s.i < end) THEN [s EXCEPT !.at = "end"]
    ELSE DecodeLoopNext(s, DecodeDigits(src, end, s.i, BASE, s.bias, s.pos, 1))

RECURSIVE DecodeLoopRun(_, _, _, _)
\* the loop goes on from s for k turns more unless it has ended
DecodeLoopMore(src, end, s, k) ==
    IF s.at # "run" THEN s ELSE DecodeLoopRun(src, end, s, k)

\* k turns of the loop from s on, or as many as it makes
DecodeLoopRun(src, end, s, k) ==
    IF k <= 1 THEN DecodeLoopTurn(src, end, s)
    ELSE DecodeLoopMore(src, end, DecodeLoopRun(src, end, s, k \div 2),
                        k - (k \div 2))

\* how the decoder ended: the status, and what buffer holds
DecodeLoopEnded(s) ==
    [status |-> IF s.at = "end" THEN "STATUS_SUCCESS" ELSE s.at, buffer |-> s.buffer]

\* while (i < end) of the decoder; every turn reads a code unit at least
DecodeLoop(src, end, i, n, bias, pos, buffer) ==
    DecodeLoopEnded(
        DecodeLoopRun(src, end,
                      [at |-> "run", i |-> i, n |-> n, bias |-> bias, pos |-> pos,
                       buffer |-> buffer],
                      Len(src) + 1))

RECURSIVE UnitsOf(_, _, _)
\* the code units of the code points buffer[lo .. hi), in order
UnitsOf(buffer, lo, hi) ==
    IF lo >= hi THEN <<>>
    ELSE IF lo + 1 = hi THEN put_utf16(buffer[lo + 1])
    ELSE UnitsOf(buffer, lo, (lo + hi) \div 2) \o UnitsOf(buffer, (lo + hi) \div 2, hi)

\* the code units of the code points of buffer from i on
LabelUnits(buffer, i) == UnitsOf(buffer, i, Len(buffer))

\* the loop that stores the code units of a decoded label: it returns
\* STATUS_BUFFER_TOO_SMALL at the first code point that does not fit
PutUnits(units, dstlen, out) ==
    IF dstlen # 0 /\ ~(Len(out) + Len(units) <= dstlen)
    THEN [status |-> "STATUS_BUFFER_TOO_SMALL", out |-> out]
    ELSE [status |-> "STATUS_SUCCESS", out |-> out \o units]

\* the loop that stores the code points of a decoded label
PutLabel(buffer, dstlen, out) == PutUnits(LabelUnits(buffer, 0), dstlen, out)

\* if (delim == start + 3) delim++;
DelimPastPrefix(delim, start) == IF delim = start + 3 THEN delim + 1 ELSE delim

\* whether the label src[start .. end) does not begin with "xn--"
NotAce(src, start, end) ==
    \/ end - start < 4
    \/ src[start + 1] \notin {120, 88}
    \/ src[start + 2] \notin {110, 78}
    \/ src[start + 3] # 45
    \/ src[start + 4] # 45

\* a label of RtlIdnToUnicode after its code points were stored as put tells
UnicodeLabelPut(src, srclen, dstlen, s, end, put) ==
    IF put.status # "STATUS_SUCCESS" THEN [s EXCEPT !.at = "STATUS_BUFFER_TOO_SMALL"]
    ELSE IF Len(put.out) - Len(s.out) > 63
    THEN [s EXCEPT !.at = "STATUS_INVALID_IDN_NORMALIZATION"]
    ELSE IF end < srclen /\ dstlen # 0 /\ ~(Len(put.out) + 1 <= dstlen)
    THEN [s EXCEPT !.at = "STATUS_BUFFER_TOO_SMALL"]
    ELSE [at |-> "run", start |-> end + 1,
          out |-> IF end < srclen THEN Append(put.out, src[end + 1]) ELSE put.out]

\* a label of RtlIdnToUnicode after the decoder ended with dec
UnicodeLabelDecoded(info, flags, src, srclen, dstlen, s, end, dec) ==
    IF dec.status # "STATUS_SUCCESS" THEN [s EXCEPT !.at = dec.status]
    ELSE IF check_invalid_chars(info, flags, dec.buffer)
    THEN [s EXCEPT !.at = "STATUS_INVALID_IDN_NORMALIZATION"]
    ELSE UnicodeLabelPut(src, srclen, dstlen, s, end,
                         PutLabel(dec.buffer, dstlen, s.out))

\* a label of RtlIdnToUnicode that begins with "xn--", basic being the code
\* units before its last delimiter
UnicodeLabelBasic(info, flags, src, srclen, dstlen, s, end, basic) ==
    UnicodeLabelDecoded(info, flags, src, srclen, dstlen, s, end,
        DecodeLoop(src, end,
                   s.start + 4 + Len(basic) + (IF Len(basic) # 0 THEN 1 ELSE 0),
                   128, 72, 0, basic))

\* mutant: a label of 63 code units is refused as well
UnicodeLabelCopy_Cap62(flags, src, dstlen, junk, s, end, end1) ==
    IF end - s.start >= 63
    THEN [s EXCEPT !.at = "STATUS_INVALID_IDN_NORMALIZATION"]
    ELSE IF /\ HasFlag(flags, IDN_USE_STD3_ASCII_RULES)
            /\ \/ src[s.start + 1] = 45
               \/ ArrayAt(src, end - 1, junk) = 45
    THEN [s EXCEPT !.at = "STATUS_INVALID_IDN_NORMALIZATION"]
    ELSE IF dstlen # 0 /\ ~(Len(s.out) + end1 - s.start <= dstlen)
    THEN [s EXCEPT !.at = "STATUS_BUFFER_TOO_SMALL"]
    ELSE [at |-> "run", start |-> end1,
          out |-> s.out \o SubSeq(src, s.start + 1, end1)]

\* a label of RtlIdnToUnicode that does not begin with "xn--"; end1 is end
\* after if (end < srclen) end++
UnicodeLabelCopy(flags, src, dstlen, junk, s, end, end1) ==
    IF end - s.start > 63
    THEN [s EXCEPT !.at = "STATUS_INVALID_IDN_NORMALIZATION"]
    ELSE IF /\ HasFlag(flags, IDN_USE_STD3_ASCII_RULES)
            /\ \/ src[s.start + 1] = 45
               \/ ArrayAt(src, end - 1, junk) = 45
    THEN [s EXCEPT !.at = "STATUS_INVALID_IDN_NORMALIZATION"]
    ELSE IF dstlen # 0 /\ ~(Len(s.out) + end1 - s.start <= dstlen)
    THEN [s EXCEPT !.at = "STATUS_BUFFER_TOO_SMALL"]
    ELSE [at |-> "run", start |-> end1,
          out |-> s.out \o SubSeq(src, s.start + 1, end1)]

\* a label of RtlIdnToUnicode after its first loop ended with sc
UnicodeLabel(info, flags, src, srclen, dstlen, junk, s, sc) ==
    IF sc.bad \/ (s.start = sc.end /\ LastRead(src, srclen, sc.end) # 0)
    THEN [s EXCEPT !.at = "STATUS_INVALID_IDN_NORMALIZATION"]
    ELSE IF NotAce(src, s.start, sc.end)
    THEN UnicodeLabelCopy(flags, src, dstlen, junk, s, sc.end,
                          IF sc.end < srclen THEN sc.end + 1 ELSE sc.end)
    ELSE UnicodeLabelBasic(info, flags, src, srclen, dstlen, s, sc.end,
             SubSeq(src, s.start + 5,
                    Min(DelimPastPrefix(LastDelim(src, s.start, sc.end), s.start),
                        s.start + 4 + 64)))

\* one turn of the loop over the labels of RtlIdnToUnicode, its test included
UnicodeLabelTurn(info, flags, src, srclen, dstlen, junk, s) ==
    IF ~(s.start < srclen) THEN [s EXCEPT !.at = "end"]
    ELSE UnicodeLabel(info, flags, src, srclen, dstlen, junk, s,
                      UnicodeScan(flags, src, srclen, s.start))

RECURSIVE UnicodeLabelRun(_, _, _, _, _, _, _, _)
\* the loop goes on from s for k turns more unless it has ended
UnicodeLabelMore(info, flags, src, srclen, dstlen, junk, s, k) ==
    IF s.at # "run" THEN s
    ELSE UnicodeLabelRun(info, flags, src, srclen, dstlen, junk, s, k)

\* k turns of the loop from s on, or as many as it makes
UnicodeLabelRun(info, flags, src, srclen, dstlen, junk, s, k) ==
    IF k <= 1 THEN UnicodeLabelTurn(info, flags, src, srclen, dstlen, junk, s)
    ELSE UnicodeLabelMore(info, flags, src, srclen, dstlen, junk,
             UnicodeLabelRun(info, flags, src, srclen, dstlen, junk, s, k \div 2),
             k - (k \div 2))

\* how the loop over the labels ended: the status, and what dst holds
UnicodeLabelsEnded(s) ==
    [status |-> IF s.at = "end" THEN "STATUS_SUCCESS" ELSE s.at, out |-> s.out]

\* the loop over the labels of RtlIdnToUnicode from start on; out is what dst
\* holds, or would hold where *dstlen is 0; every turn but the last moves
\* start on
IdnToUnicodeLabels(info, flags, src, srclen, dstlen, junk, start, out) ==
    UnicodeLabelsEnded(
        UnicodeLabelRun(info, flags, src, srclen, dstlen, junk,
                        [at |-> "run", start |-> start, out |-> out],
                        srclen + 2))

\* the end of RtlIdnToUnicode, the loop over the labels having ended with r
UnicodeFinish(dstlen, r) ==
    IF r.status # "STATUS_SUCCESS" THEN Failed(r.status, dstlen)
    ELSE [status |-> "STATUS_SUCCESS", reslen |-> Len(r.out),
          out |-> IF dstlen # 0 THEN r.out ELSE <<>>]

\* RtlIdnToUnicode after load_norm_table returned l, srclen being the number
\* of code units of src
UnicodeLoaded(l, flags, src, srclen, dstlen, junk) ==
    IF l.status # "STATUS_SUCCESS" THEN Failed(l.status, dstlen)
    ELSE UnicodeFinish(dstlen,
             IdnToUnicodeLabels(l.info, flags, src, srclen, dstlen, junk, 0, <<>>))

\* RtlIdnToUnicode( flags, src, srclen, dst, &dstlen )
RtlIdnToUnicode(flags, src, srclen, dstlen, junk) ==
    IF srclen < -1 THEN Failed("STATUS_INVALID_PARAMETER", dstlen)
    ELSE UnicodeLoaded(load_norm_table(13), flags, src,
                       IF srclen = -1 THEN wcslen(src) + 1 ELSE srclen,
                       dstlen, junk)

(***************************************************************************)
(* A client of the normalization and IDN functions: it asks for the size   *)
(* with a destination of capacity zero, then calls again with a            *)
(* destination of the capacity it was told.  The tables of forms 1, 2 and  *)
(* 13 are in the cache.                                                    *)
(***************************************************************************)
MaxNormLen == 2
MaxIdnLen == 3

Rep(c, n) == [i \in 1..n |-> c]

\* a, e, A, U+00E9, U+01D5, U+0301, U+0323, U+FB01, U+FDFA, U+AC01, the null
\* character, a pair of surrogates
NormUnits == {97, 101, 65, 233, 469, 769, 803, 64257, 65018, 44033, 0, 55296, 56320}

NormInputs ==
    SeqUpTo(NormUnits, MaxNormLen)
    \cup {Rep(233, 32), Rep(233, 33), Rep(469, 21), Rep(469, 22), Rep(64257, 33),
          Rep(65018, 3), Rep(65018, 4)}

\* a, A, '-', '.', U+00FC, U+FB01, the null character
IdnUnits == {97, 65, 45, 46, 252, 64257, 0}

IdnInputs ==
    SeqUpTo(IdnUnits, MaxIdnLen)
    \cup {<<98, 252, 99, 104, 101, 114>>, <<98, 252, 99, 104, 101, 114, 46, 100, 101>>,
          Rep(97, 63), Rep(97, 64), Rep(252, 40), Rep(64257, 32),
          Rep(97, 55) \o <<252>>, Rep(97, 56) \o <<252>>, Rep(252, 57), Rep(252, 58),
          <<120, 110, 45, 45>> \o Rep(97, 56) \o <<45, 116, 100, 97>>,
          Rep(252, 63), Rep(252, 63) \o <<0>>, Rep(252, 64),
          <<252, 0>> \o Rep(252, 65), <<252, 46>> \o Rep(252, 65)}

\* x, n, '-', a, k, '.', the null character
AceUnits == {120, 110, 45, 97, 107, 46, 0}

AceInputs ==
    SeqUpTo(AceUnits, MaxIdnLen)
    \cup {<<120, 110, 45, 45>> \o t : t \in SeqUpTo({97, 107, 118, 45, 57}, MaxIdnLen)}
    \cup {<<120, 110, 45, 45, 98, 99, 104, 101, 114, 45, 107, 118, 97>>,
          <<120, 110, 45, 45, 98, 99, 104, 101, 114, 45, 107, 118, 97, 46, 100, 101>>,
          Rep(97, 63), Rep(97, 64),
          <<120, 110, 45, 45>> \o Rep(97, 56) \o <<45, 116, 100, 97>>,
          <<120, 110, 45, 45>> \o Rep(97, 62) \o <<45, 116, 100, 97>>,
          <<120, 110, 45, 45>> \o Rep(97, 63) \o <<45, 116, 100, 97>>,
          <<120, 110, 45, 45>> \o Rep(97, 64) \o <<45, 116, 100, 97>>,
          <<120, 110, 45, 45>> \o Rep(97, 70),
          <<120, 110, 45, 45>> \o Rep(57, 5) \o <<97>>,
          <<120, 110, 45, 45>> \o Rep(57, 8),
          <<120, 110, 45, 45, 97, 45>> \o Rep(57, 7) \o <<97>>}

GoodBlob(f) == [size |-> 256, tag |-> f, tables |-> <<26, 30, 30, 40, 50, 60, 128, 128>>]

\* the cache after forms 1, 2 and 13 were loaded, no thread in load_norm_table
CacheLoaded ==
    /\ views = <<[state |-> "mapped", blob |-> GoodBlob(1)],
                 [state |-> "mapped", blob |-> GoodBlob(2)],
                 [state |-> "mapped", blob |-> GoodBlob(13)]>>
    /\ norm_tables = [f \in 0..15 |->
                         CASE f = 1 -> 1 [] f = 2 -> 2 [] f = 13 -> 3 [] OTHER -> NULL]
    /\ thr = [t \in Threads |-> IdleThread]

\* the numbers of allocations RtlAllocateHeap may satisfy in one call
Heaps == {1, 3}

\* what a code unit the function reads without having stored it may hold:
\* the null character or '-'
Junks == {0, 45}

InitNorm ==
    /\ CacheLoaded
    /\ nls_info = ZeroNlsInfo
    /\ r1 = NoRes /\ r2 = NoRes /\ cpc = "start"
    /\ op \in {"RtlNormalizeString", "RtlIdnToNameprepUnicode", "RtlIdnToAscii",
               "RtlIdnToUnicode"}
    /\ \E form \in {1, 2, 13}, flags \in 0..3 :
          \E src \in (CASE op = "RtlNormalizeString" -> NormInputs
                        [] op = "RtlIdnToUnicode" -> AceInputs
                        [] OTHER -> IdnInputs) :
             /\ op = "RtlNormalizeString" => flags = 0
             /\ op # "RtlNormalizeString" => form = 13
             /\ arg = [form |-> form, flags |-> flags, src |-> src]

\* the first call of the client, with a destination of capacity 0; res is
\* what the function named returns
SizeCall(name, res) ==
    /\ op = name /\ cpc = "start"
    /\ r1' = res
    /\ cpc' = "sized"
    /\ UNCHANGED <<op, arg, r2, nls_info>> /\ UNCHANGED cacheVars

\* the second call of the client, made where the first one succeeded, with a
\* destination of the capacity the first one returned
FillCall(name, res) ==
    /\ op = name /\ cpc = "sized"
    /\ r1.status = "STATUS_SUCCESS"
    /\ r2' = res
    /\ cpc' = "done"
    /\ UNCHANGED <<op, arg, r1, nls_info>> /\ UNCHANGED cacheVars

NormalizeStringSizeCall ==
    \E heap \in Heaps :
       SizeCall("RtlNormalizeString",
                RtlNormalizeString(arg.form, arg.src, Len(arg.src), 0, heap))

NormalizeStringFillCall ==
    \E heap \in Heaps :
       FillCall("RtlNormalizeString",
                RtlNormalizeString(arg.form, arg.src, Len(arg.src), r1.reslen, heap))

IdnToNameprepUnicodeSizeCall ==
    \E heap \in Heaps, junk \in Junks :
       SizeCall("RtlIdnToNameprepUnicode",
                RtlIdnToNameprepUnicode(arg.flags, arg.src, Len(arg.src), 0, heap, junk))

IdnToNameprepUnicodeFillCall ==
    \E heap \in Heaps, junk \in Junks :
       FillCall("RtlIdnToNameprepUnicode",
                RtlIdnToNameprepUnicode(arg.flags, arg.src, Len(arg.src), r1.reslen,
                                        heap, junk))

IdnToAsciiSizeCall ==
    \E heap \in Heaps, junk \in Junks :
       SizeCall("RtlIdnToAscii",
                RtlIdnToAscii(arg.flags, arg.src, Len(arg.src), 0, heap, junk))

IdnToAsciiFillCall ==
    \E heap \in Heaps, junk \in Junks :
       FillCall("RtlIdnToAscii",
                RtlIdnToAscii(arg.flags, arg.src, Len(arg.src), r1.reslen, heap, junk))

IdnToUnicodeSizeCall ==
    \E junk \in Junks :
       SizeCall("RtlIdnToUnicode",
                RtlIdnToUnicode(arg.flags, arg.src, Len(arg.src), 0, junk))

IdnToUnicodeFillCall ==
    \E junk \in Junks :
       FillCall("RtlIdnToUnicode",
                RtlIdnToUnicode(arg.flags, arg.src, Len(arg.src), r1.reslen, junk))

NextNorm ==
    \/ NormalizeStringSizeCall
    \/ NormalizeStringFillCall
    \/ IdnToNameprepUnicodeSizeCall
    \/ IdnToNameprepUnicodeFillCall
    \/ IdnToAsciiSizeCall
    \/ IdnToAsciiFillCall
    \/ IdnToUnicodeSizeCall
    \/ IdnToUnicodeFillCall

SpecNorm == InitNorm /\ [][NextNorm]_vars

\* the call of the function op names with a destination of capacity 512, no
\* allocation failing
AcceptCall ==
    CASE op = "RtlNormalizeString" ->
           RtlNormalizeString(arg.form, arg.src, Len(arg.src), 512, 3)
      [] op = "RtlIdnToNameprepUnicode" ->
           RtlIdnToNameprepUnicode(arg.flags, arg.src, Len(arg.src), 512, 3, 0)
      [] op = "RtlIdnToAscii" ->
           RtlIdnToAscii(arg.flags, arg.src, Len(arg.src), 512, 3, 0)
      [] op = "RtlIdnToUnicode" ->
           RtlIdnToUnicode(arg.flags, arg.src, Len(arg.src), 512, 0)

\* the string RtlIdnToNameprepUnicode makes of the input when
\* IDN_USE_STD3_ASCII_RULES is not set
NameprepForm ==
    RtlIdnToNameprepUnicode(arg.flags % 2, arg.src, Len(arg.src), 512, 3, 0).out

\* under IDN_USE_STD3_ASCII_RULES the function tests a code unit it never
\* stored: buf[start] past a final '.' where no null character stopped the
\* label loop (RtlIdnToNameprepUnicode, RtlIdnToAscii), src[-1] where the
\* input is the null character alone (RtlIdnToUnicode)
ReadsUnstored ==
    /\ op # "RtlNormalizeString"
    /\ HasFlag(arg.flags, IDN_USE_STD3_ASCII_RULES)
    /\ IF op = "RtlIdnToUnicode" THEN arg.src = <<0>>
       ELSE /\ NameprepForm # <<>>
            /\ NameprepForm[Len(NameprepForm)] = 46
            /\ \A k \in 1..Len(NameprepForm) : NameprepForm[k] # 0

\* a valid input: one the function accepts when the destination is large
ValidInput == AcceptCall.status = "STATUS_SUCCESS"

\* the first call made, it is as a. tells; an allocation may have failed
C3_SizeAs(a) ==
    \/ r1.status = "STATUS_NO_MEMORY"
    \/ /\ r1.status = "STATUS_SUCCESS"
       /\ r1.out = <<>>
       /\ IF op = "RtlNormalizeString"
          THEN r1.reslen = NormalizeEstimate(norm_tables[arg.form], Len(arg.src))
          ELSE r1.reslen = a.reslen

\* the second call made, it is as a tells: it succeeds and stores what a
\* holds, save that RtlNormalizeString fails where that is longer than the
\* estimate; an allocation may have failed
C3_FillAs(a) ==
    \/ r2.status = "STATUS_NO_MEMORY"
    \/ /\ op = "RtlNormalizeString" /\ a.reslen > r1.reslen
       /\ r2.status # "STATUS_SUCCESS"
    \/ /\ op = "RtlNormalizeString" => a.reslen <= r1.reslen
       /\ r2.status = "STATUS_SUCCESS"
       /\ r2.reslen = a.reslen
       /\ r2.out = a.out

NlsMembers == {"AnsiTableInfo", "OemTableInfo", "UpperCaseTable", "LowerCaseTable"}

\* the orders a structure copy stores the members in
CopyOrders ==
    {<<"AnsiTableInfo", "OemTableInfo", "UpperCaseTable", "LowerCaseTable">>,
     <<"LowerCaseTable", "UpperCaseTable", "OemTableInfo", "AnsiTableInfo">>}

\* RtlInitNlsTables with the case table at address casetable
NlsTablesAt(ansi, oem, casetable) ==
    [RtlInitNlsTables(ansi, oem) EXCEPT !.UpperCaseTable = casetable + @,
                                        !.LowerCaseTable = casetable + @]

\* the table sets callers pass to RtlResetRtlTranslations
ResetInfos == {NlsTablesAt("sbcs", "dbcs", 0), NlsTablesAt("dbcs", "sbcs", 4096)}

\* a reader that has read nothing yet
NoneSeen == [AnsiTableInfo |-> ZeroCpInfo, UpperCaseTable |-> NULL]

IdleReset ==
    [pc |-> "idle", info |-> ZeroNlsInfo, todo |-> <<>>, seen |-> NoneSeen,
     alone |-> TRUE]

\* the threads inside RtlResetRtlTranslations
Resetting == {t \in Threads : thr[t].pc \in {"ansi_cp", "mb_tag", "oem_tag", "copy"}}

InitReset ==
    /\ op = "RtlResetRtlTranslations" /\ r1 = NoRes /\ r2 = NoRes /\ cpc = "idle"
    /\ \E order \in CopyOrders :
          arg = [NlsAnsiCodePage |-> 0, NlsMbCodePageTag |-> 0,
                 NlsMbOemCodePageTag |-> 0, calls |-> 0, order |-> order]
    /\ nls_info = ZeroNlsInfo
    /\ norm_tables = [f \in 0..15 |-> NULL]
    /\ views = <<>>
    /\ thr = [t \in Threads |-> IdleReset]

\* the threads that may make a call: a reader that has returned, and of the
\* threads that hold nothing (they are all alike) the first
Free ==
    {t \in Threads : \/ thr[t].pc = "read"
                     \/ /\ thr[t].pc = "idle"
                        /\ \A u \in Threads : thr[u].pc = "idle" => t <= u}

\* a thread enters RtlResetRtlTranslations( info ); the calls already inside
\* are no longer alone, and nor is this one if there are any
ResetCall(t, info) ==
    /\ t \in Free
    /\ arg.calls < MaxCalls
    /\ thr' = [u \in Threads |->
                  IF u = t
                  THEN [pc |-> "ansi_cp", info |-> info, todo |-> arg.order,
                        seen |-> NoneSeen, alone |-> Resetting = {}]
                  ELSE IF u \in Resetting THEN [thr[u] EXCEPT !.alone = FALSE]
                  ELSE thr[u]]
    /\ arg' = [arg EXCEPT !.calls = @ + 1]
    /\ UNCHANGED nls_info

\* NlsAnsiCodePage = info->AnsiTableInfo.CodePage
SetAnsiCodePage(t) ==
    /\ thr[t].pc = "ansi_cp"
    /\ arg' = [arg EXCEPT !.NlsAnsiCodePage = thr[t].info.AnsiTableInfo.CodePage]
    /\ thr' = [thr EXCEPT ![t].pc = "mb_tag"]
    /\ UNCHANGED nls_info

\* NlsMbCodePageTag = info->AnsiTableInfo.DBCSCodePage
SetMbCodePageTag(t) ==
    /\ thr[t].pc = "mb_tag"
    /\ arg' = [arg EXCEPT !.NlsMbCodePageTag = thr[t].info.AnsiTableInfo.DBCSCodePage]
    /\ thr' = [thr EXCEPT ![t].pc = "oem_tag"]
    /\ UNCHANGED nls_info

\* NlsMbOemCodePageTag = info->OemTableInfo.DBCSCodePage
SetMbOemCodePageTag(t) ==
    /\ thr[t].pc = "oem_tag"
    /\ arg' = [arg EXCEPT !.NlsMbOemCodePageTag = thr[t].info.OemTableInfo.DBCSCodePage]
    /\ thr' = [thr EXCEPT ![t].pc = "copy"]
    /\ UNCHANGED nls_info

\* the thread as a store of the copy leaves it: it returns after the last one
\* and holds nothing any more
AfterStore(t) ==
    IF Len(thr[t].todo) = 1 THEN IdleReset ELSE [thr[t] EXCEPT !.todo = Tail(@)]

\* mutant: the copy leaves LowerCaseTable as it was
CopyMember_SkipLower(t) ==
    /\ thr[t].pc = "copy"
    /\ nls_info' = IF Head(thr[t].todo) = "LowerCaseTable" THEN nls_info
                   ELSE [nls_info EXCEPT ![Head(thr[t].todo)] =
                                            thr[t].info[Head(thr[t].todo)]]
    /\ thr' = [thr EXCEPT ![t] = AfterStore(t)]
    /\ UNCHANGED arg

\* nls_info = *info: the store of the next member; the function returns after
\* the last
CopyMember(t) ==
    /\ thr[t].pc = "copy"
    /\ nls_info' = [nls_info EXCEPT ![Head(thr[t].todo)] =
                                       thr[t].info[Head(thr[t].todo)]]
    /\ thr' = [thr EXCEPT ![t] = AfterStore(t)]
    /\ UNCHANGED arg

\* a thread enters RtlUpcaseUnicodeToMultiByteN
ReaderCall(t) ==
    /\ t \in Free
    /\ arg.calls < MaxCalls
    /\ thr' = [thr EXCEPT ![t] = [IdleReset EXCEPT !.pc = "read_ansi"]]
    /\ arg' = [arg EXCEPT !.calls = @ + 1]
    /\ UNCHANGED nls_info

\* info->DBCSCodePage, info->WideCharTable in RtlUpcaseUnicodeToCustomCPN, info
\* being &nls_info.AnsiTableInfo
ReadAnsiTableInfo(t) ==
    /\ thr[t].pc = "read_ansi"
    /\ thr' = [thr EXCEPT ![t].pc = "read_upper",
                          ![t].seen.AnsiTableInfo = nls_info.AnsiTableInfo]
    /\ UNCHANGED <<arg, nls_info>>

\* casemap( nls_info.UpperCaseTable, ... ) in RtlUpcaseUnicodeToCustomCPN
ReadUpperCaseTable(t) ==
    /\ thr[t].pc = "read_upper"
    /\ thr' = [thr EXCEPT ![t].pc = "read",
                          ![t].seen.UpperCaseTable = nls_info.UpperCaseTable]
    /\ UNCHANGED <<arg, nls_info>>

resetVars == <<op, r1, r2, cpc, norm_tables, views>>

NextReset ==
    \/ \E t \in Threads, info \in ResetInfos : ResetCall(t, info) /\ UNCHANGED resetVars
    \/ \E t \in Threads : SetAnsiCodePage(t) /\ UNCHANGED resetVars
    \/ \E t \in Threads : SetMbCodePageTag(t) /\ UNCHANGED resetVars
    \/ \E t \in Threads : SetMbOemCodePageTag(t) /\ UNCHANGED resetVars
    \/ \E t \in Threads : CopyMember(t) /\ UNCHANGED resetVars
    \/ \E t \in Threads : ReaderCall(t) /\ UNCHANGED resetVars
    \/ \E t \in Threads : ReadAnsiTableInfo(t) /\ UNCHANGED resetVars
    \/ \E t \in Threads : ReadUpperCaseTable(t) /\ UNCHANGED resetVars

SpecReset == InitReset /\ [][NextReset]_vars

(***************************************************************************)
(* C11: the active table set                                               *)
(***************************************************************************)
\* the readers that have returned having seen the members of a set a call passed
Observed ==
    {t \in Threads : /\ thr[t].pc = "read"
                     /\ \E i \in ResetInfos :
                           /\ thr[t].seen.UpperCaseTable = i.UpperCaseTable
                           /\ thr[t].seen.AnsiTableInfo = i.AnsiTableInfo}

\* C11 as stated: the table set is published once; after a reader has observed
\* a published set no step changes the tables readers see
C11_PublishOnce == [][Observed # {} => nls_info' = nls_info]_vars

\* C11 amended: every call of RtlResetRtlTranslations overwrites the active
\* set: when a call that no other call overlapped returns, nls_info is the set
\* it passed, whatever was installed before; no member is ever anything but a
\* member of the zero set or of a set some call passed
C11_LastResetWins ==
    [][/\ \A t \in Threads :
             (thr[t].pc = "copy" /\ thr'[t].pc = "idle" /\ thr[t].alone)
                => nls_info' = thr[t].info
       /\ \A m \in NlsMembers :
             \/ nls_info'[m] = nls_info[m]
             \/ \E t \in Threads : thr[t].pc = "copy" /\ nls_info'[m] = thr[t].info[m]
      ]_vars

\* a reader has observed one set; the calls have returned, and the set that
\* is installed now is the other one
C11_Witness ==
    /\ Resetting = {}
    /\ nls_info \in ResetInfos
    /\ \E t \in Observed :
          /\ thr[t].seen.AnsiTableInfo # nls_info.AnsiTableInfo
          /\ thr[t].seen.UpperCaseTable # nls_info.UpperCaseTable

(***************************************************************************)
(* The IDN codec on single labels.  In SpecIdn a client passes a label to  *)
(* RtlIdnToAscii with an ample destination and, where that succeeds, what  *)
(* it stored to RtlIdnToUnicode with the same flags.                       *)
(***************************************************************************)
\* a, A, '-', U+00FC, U+FB01, U+0301, U+2260, U+0378, a pair of surrogates
CodecUnits == {97, 65, 45, 252, 64257, 769, 8800, 888, 55296, 56320}

\* buecher, muenchen (with their umlauts), U+65E5 U+672C U+8A9E, U+0440 U+0444,
\* U+4E2D U+56FD, U+D55C U+AD6D
CodecWords ==
    {<<98, 252, 99, 104, 101, 114>>, <<109, 252, 110, 99, 104, 101, 110>>,
     <<26085, 26412, 35486>>, <<1088, 1092>>, <<20013, 22269>>, <<54620, 44397>>}

CodecInputs == SeqUpTo(CodecUnits, MaxIdnLen) \cup CodecWords \cup {Rep(252, 40)}

\* the capacity of a destination no result of the model outgrows
AmpleLen == 512

InitIdn ==
    /\ CacheLoaded
    /\ nls_info = ZeroNlsInfo
    /\ r1 = NoRes /\ r2 = NoRes /\ cpc = "start"
    /\ op = "RtlIdnToAscii"
    /\ \E flags \in 0..3, src \in CodecInputs : arg = [flags |-> flags, src |-> src]

\* RtlIdnToAscii( flags, src, srclen, dst, &dstlen ) on the label
LabelToAscii ==
    /\ cpc = "start"
    /\ \E heap \in Heaps, junk \in Junks :
          r1' = RtlIdnToAscii(arg.flags, arg.src, Len(arg.src), AmpleLen, heap, junk)
    /\ cpc' = "ascii"
    /\ UNCHANGED <<op, arg, r2, nls_info>> /\ UNCHANGED cacheVars

\* RtlIdnToUnicode( flags, dst, dstlen, ... ) on what RtlIdnToAscii stored
LabelToUnicode ==
    /\ cpc = "ascii"
    /\ r1.status = "STATUS_SUCCESS"
    /\ \E junk \in Junks :
          r2' = RtlIdnToUnicode(arg.flags, r1.out, r1.reslen, AmpleLen, junk)
    /\ cpc' = "done"
    /\ UNCHANGED <<op, arg, r1, nls_info>> /\ UNCHANGED cacheVars

NextIdn == LabelToAscii \/ LabelToUnicode

SpecIdn == InitIdn /\ [][NextIdn]_vars

(***************************************************************************)
(* C12: RtlIdnToUnicode undoes RtlIdnToAscii                               *)
(***************************************************************************)
\* the input holds a code point that is not ASCII
HasNonAscii == \E k \in 1..Len(arg.src) : arg.src[k] >= 128

\* what RtlIdnToNameprepUnicode makes of the input, no allocation failing
NameprepOfLabel ==
    RtlIdnToNameprepUnicode(arg.flags, arg.src, Len(arg.src), AmpleLen, 3, 0)

\* r2 is the Nameprep form n of the label
C12_IsNameprep(n) ==
    /\ n.status = "STATUS_SUCCESS"
    /\ r2.status = "STATUS_SUCCESS"
    /\ r2.reslen = n.reslen
    /\ r2.out = n.out

\* C12: a label with a code point that is not ASCII, accepted by
\* RtlIdnToAscii: RtlIdnToUnicode makes of the result of RtlIdnToAscii the
\* Nameprep form of the label
C12_RoundTrip == (cpc = "done" /\ HasNonAscii) => C12_IsNameprep(NameprepOfLabel)

\* "bücher" went through "xn--bcher-kva" and came back
C12_Witness ==
    /\ cpc = "done"
    /\ arg.src = <<98, 252, 99, 104, 101, 114>>
    /\ r1.out = <<120, 110, 45, 45, 98, 99, 104, 101, 114, 45, 107, 118, 97>>
    /\ r2.out = arg.src

(***************************************************************************)
(* C13: what the encoder of RtlIdnToAscii stores                           *)
(***************************************************************************)
IsBasic(c) == c < 128

\* a digit of Punycode as the encoder writes it: a-z, 0-9
IsAceDigit(c) == (c >= 97 /\ c <= 122) \/ (c >= 48 /\ c <= 57)

\* "xn--", the basic code points of the Nameprep form nf in order, and '-'
\* where there is one at least
AceHead(nf) ==
    <<120, 110, 45, 45>> \o SelectSeq(nf, IsBasic)
       \o (IF SelectSeq(nf, IsBasic) = <<>> THEN <<>> ELSE <<45>>)

\* the ACE labels of the words of CodecWords, as registries publish them:
\* xn--bcher-kva, xn--mnchen-3ya, xn--wgv71a119e, xn--p1ai, xn--fiqs8s,
\* xn--3e0b707e
KnownAce(w) ==
    CASE w = <<98, 252, 99, 104, 101, 114>> ->
           <<120, 110, 45, 45, 98, 99, 104, 101, 114, 45, 107, 118, 97>>
      [] w = <<109, 252, 110, 99, 104, 101, 110>> ->
           <<120, 110, 45, 45, 109, 110, 99, 104, 101, 110, 45, 51, 121, 97>>
      [] w = <<26085, 26412, 35486>> ->
           <<120, 110, 45, 45, 119, 103, 118, 55, 49, 97, 49, 49, 57, 101>>
      [] w = <<1088, 1092>> -> <<120, 110, 45, 45, 112, 49, 97, 105>>
      [] w = <<20013, 22269>> -> <<120, 110, 45, 45, 102, 105, 113, 115, 56, 115>>
      [] w = <<54620, 44397>> -> <<120, 110, 45, 45, 51, 101, 48, 98, 55, 48, 55, 101>>

\* out is the ACE form of a label whose Nameprep form is nf: the head, and
\* after it digits and nothing else
C13_AceOf(nf, out) ==
    /\ Len(out) > Len(AceHead(nf))
    /\ SubSeq(out, 1, Len(AceHead(nf))) = AceHead(nf)
    /\ \A k \in (Len(AceHead(nf)) + 1)..Len(out) : IsAceDigit(out[k])

\* C13: for a label whose Nameprep form is not all ASCII RtlIdnToAscii stores
\* xn--, the basic code points in order, '-' where there is one, and digits;
\* the words of CodecWords get the ACE labels registries publish for them,
\* b U+00FC c h e r gets xn--bcher-kva
C13_Encoder ==
    (cpc # "start" /\ r1.status = "STATUS_SUCCESS"
        /\ \E k \in 1..Len(NameprepOfLabel.out) : ~IsBasic(NameprepOfLabel.out[k]))
    => /\ r1.reslen = Len(r1.out)
       /\ C13_AceOf(NameprepOfLabel.out, r1.out)
       /\ arg.src \in CodecWords => r1.out = KnownAce(arg.src)

\* U+65E5 U+672C U+8A9E was stored as xn--wgv71a119e
C13_Witness ==
    /\ cpc = "ascii"
    /\ arg.src = <<26085, 26412, 35486>>
    /\ arg.flags = 0
    /\ r1.out = <<120, 110, 45, 45, 119, 103, 118, 55, 49, 97, 49, 49, 57, 101>>

(***************************************************************************)
(* C14: the cap of 63 on a label, checked in SpecNorm                      *)
(***************************************************************************)
\* the input is one label of ASCII letters and nothing else
AsciiLabelInput == \A k \in 1..Len(arg.src) : arg.src[k] >= 97 /\ arg.src[k] <= 122

\* the input begins with the ACE prefix, in either case
AcePrefixed ==
    /\ Len(arg.src) >= 4
    /\ arg.src[1] \in {120, 88} /\ arg.src[2] \in {110, 78}
    /\ arg.src[3] = 45 /\ arg.src[4] = 45

\* no label of out, a run of code units with no '.' and no null in it, is
\* longer than 63
LabelsWithin63(out) ==
    \A i \in 1..(Len(out) - 63) : \E k \in i..(i + 63) : out[k] \in {46, 0}

\* the first call was made on one label of ASCII letters: it succeeded where
\* the label has 1 to 63 of them and was refused where it has more
C14_LetterLabel ==
    (op # "RtlNormalizeString" /\ cpc # "start" /\ AsciiLabelInput /\ arg.src # <<>>)
    => r1.status = IF Len(arg.src) <= 63 THEN "STATUS_SUCCESS"
                   ELSE "STATUS_INVALID_IDN_NORMALIZATION"

\* C14 as stated: a label of 63 ASCII characters is accepted and one of 64
\* ASCII characters refused by the three functions, and RtlIdnToAscii stores
\* no label longer than 63
C14_Cap63 ==
    /\ C14_LetterLabel
    /\ (op # "RtlNormalizeString" /\ cpc # "start" /\ Len(arg.src) = 64
          /\ \A k \in 1..64 : IsLDH(arg.src[k]))
       => r1.status = "STATUS_INVALID_IDN_NORMALIZATION"
    /\ (op = "RtlIdnToAscii" /\ cpc = "done" /\ r2.status = "STATUS_SUCCESS")
       => LabelsWithin63(r2.out)

\* C14 amended: as stated, but RtlIdnToUnicode refuses a label of 64 ASCII
\* characters only where it does not begin with xn--; a label that does is
\* refused where what it decodes to is longer than 63
C14_Cap63Decoded ==
    /\ C14_LetterLabel
    /\ (op # "RtlNormalizeString" /\ cpc # "start" /\ Len(arg.src) = 64
          /\ (\A k \in 1..64 : IsLDH(arg.src[k]))
          /\ (op = "RtlIdnToUnicode" => ~AcePrefixed))
       => r1.status = "STATUS_INVALID_IDN_NORMALIZATION"
    /\ (op = "RtlIdnToAscii" /\ cpc = "done" /\ r2.status = "STATUS_SUCCESS")
       => LabelsWithin63(r2.out)
    /\ (op = "RtlIdnToUnicode" /\ cpc = "done" /\ r2.status = "STATUS_SUCCESS")
       => LabelsWithin63(r2.out)

\* RtlIdnToAscii has stored a label of exactly 63 characters for 55 letters
\* and U+00FC
C14_Witness ==
    /\ op = "RtlIdnToAscii" /\ cpc = "done"
    /\ arg.src = Rep(97, 55) \o <<252>>
    /\ r2.status = "STATUS_SUCCESS" /\ Len(r2.out) = 63

(***************************************************************************)
(* C15: empty labels, checked in SpecNorm                                  *)
(***************************************************************************)
\* the input has an empty label with a '.' after it: it begins with '.' or
\* holds two of them in a row
EmptyLabelInside ==
    /\ arg.src # <<>>
    /\ \/ arg.src[1] = 46
       \/ \E k \in 1..(Len(arg.src) - 1) : arg.src[k] = 46 /\ arg.src[k + 1] = 46

\* the input ends with a '.' that leaves the last label empty
EmptyLabelLast == arg.src # <<>> /\ arg.src[Len(arg.src)] = 46

\* the input without its last code unit
AllButLast == SubSeq(arg.src, 1, Len(arg.src) - 1)

\* the call of the function op names on the input without its last code
\* unit, the destination large and no allocation failing
CallOnAllButLast ==
    CASE op = "RtlIdnToNameprepUnicode" ->
           RtlIdnToNameprepUnicode(arg.flags, AllButLast, Len(AllButLast), AmpleLen, 3, 0)
      [] op = "RtlIdnToAscii" ->
           RtlIdnToAscii(arg.flags, AllButLast, Len(AllButLast), AmpleLen, 3, 0)
      [] op = "RtlIdnToUnicode" ->
           RtlIdnToUnicode(arg.flags, AllButLast, Len(AllButLast), AmpleLen, 0)

\* the status of a call that refused the input, or could not allocate
Refused == r1.status \in {"STATUS_INVALID_IDN_NORMALIZATION", "STATUS_NO_MEMORY"}

DotAdded ==
    /\ EmptyLabelLast /\ ~EmptyLabelInside
    /\ \A k \in 1..Len(arg.src) : arg.src[k] # 0
    /\ CallOnAllButLast.status = "STATUS_SUCCESS"

IsNormalizedProps(str, len, s, ch, r, props) ==
    IF props % 64 = 63                                   \* class == 0x3f
    THEN IF props = 191                                  \* 0xbf: QC=No
         THEN [at |-> "run", i |-> s.i + r, result |-> 0, last_class |-> 0]
         ELSE IF props = 255                             \* 0xff
         THEN IF \/ ch >= HANGUL_LBASE /\ ch < HANGUL_LBASE + 256
                 \/ ch >= HANGUL_SBASE /\ ch < HANGUL_SBASE + 11264
                 \/ ch = 0 /\ s.i = len - 1
              THEN [at |-> "run", i |-> s.i + r, result |-> s.result, last_class |-> 0]
              ELSE [s EXCEPT !.at = "STATUS_NO_UNICODE_TRANSLATION"]
         ELSE [at |-> "run", i |-> s.i + r, result |-> s.result, last_class |-> 0]
    ELSE IF props >= 128                                 \* props & 0x80
    THEN [at |-> "run", i |-> s.i + r,
          result |-> IF (props % 64) # 0 /\ (props % 64) < s.last_class THEN 0
                     ELSE IF props >= 192 THEN -1        \* (props & 0xc0) == 0xc0
                     ELSE s.result,
          last_class |-> props % 64]
    ELSE [at |-> "run", i |-> s.i + r, result |-> s.result, last_class |-> 0]

\* the loop body after get_utf16 gave g
IsNormalizedStep(info, str, len, s, g) ==
    IF g.len = 0 THEN [s EXCEPT !.at = "STATUS_NO_UNICODE_TRANSLATION"]
    ELSE IF /\ comp_size(info) # 0
            /\ \/ g.ch >= HANGUL_VBASE /\ g.ch < HANGUL_VBASE + HANGUL_VCOUNT
               \/ g.ch >= HANGUL_TBASE /\ g.ch < HANGUL_TBASE + HANGUL_TCOUNT
    THEN [at |-> "run", i |-> s.i + g.len, result |-> -1,
          last_class |-> s.last_class]
    ELSE IF comp_size(info) = 0 /\ IsHangulSyllable(g.ch)
    THEN [s EXCEPT !.at = "end", !.result = 0]
    ELSE IsNormalizedProps(str, len, s, g.ch, g.len, get_char_props(info, g.ch))

\* one turn of for (i = 0; i < len && result; i += r), its test included
IsNormalizedTurn(info, str, len, s) ==
    IF ~(s.i < len /\ s.result # 0) THEN [s EXCEPT !.at = "end"]
    ELSE IsNormalizedStep(info, str, len, s, get_utf16(str, s.i + 1, len - s.i))

RECURSIVE IsNormalizedRun(_, _, _, _, _)
\* the loop goes on from s for n turns more unless it has ended
IsNormalizedMore(info, str, len, s, n) ==
    IF s.at # "run" THEN s ELSE IsNormalizedRun(info, str, len, s, n)

\* n turns of the loop from s on, or as many as it makes
IsNormalizedRun(info, str, len, s, n) ==
    IF n <= 1 THEN IsNormalizedTurn(info, str, len, s)
    ELSE IsNormalizedMore(info, str, len,
                          IsNormalizedRun(info, str, len, s, n \div 2), n - (n \div 2))

\* result = !status && (dstlen == len) && !wcsncmp( buffer, str, len )
IsNormalizedSame(str, len, n) ==
    IF n.status = "STATUS_SUCCESS" /\ n.reslen = len /\ n.out = SubSeq(str, 1, len)
    THEN 1 ELSE 0

\* RtlIsNormalizedString after its loop ended with s; heap is the number of
\* allocations RtlAllocateHeap still satisfies
IsNormalizedEnded(form, str, len, heap, s) ==
    IF s.at # "end" THEN [status |-> s.at, res |-> NULL]
    ELSE IF s.result # -1 THEN [status |-> "STATUS_SUCCESS", res |-> s.result]
    ELSE IF heap = 0 THEN [status |-> "STATUS_NO_MEMORY", res |-> NULL]
    ELSE [status |-> "STATUS_SUCCESS",
          res |-> IsNormalizedSame(str, len,
                     RtlNormalizeString(form, str, len, len * 4, heap - 1))]

\* RtlIsNormalizedString after load_norm_table returned l
IsNormalizedLoaded(l, form, str, len, heap) ==
    IF l.status # "STATUS_SUCCESS" THEN [status |-> l.status, res |-> NULL]
    ELSE IsNormalizedEnded(form, str, len, heap,
            IsNormalizedRun(l.info, str, len,
                            [at |-> "run", i |-> 0, result |-> 1, last_class |-> 0],
                            len + 1))

\* RtlIsNormalizedString( form, str, len, &res ), len not -1: the status, and
\* what was stored in res (NULL for nothing)
RtlIsNormalizedString(form, str, len, heap) ==
    IsNormalizedLoaded(load_norm_table(form), form, str, len, heap)

(***************************************************************************)
(* In SpecQuick a client calls RtlIsNormalizedString once; the tables of   *)
(* forms 1, 2 and 13 are in the cache.                                     *)
(***************************************************************************)
\* the allocations that succeed: none, or all
QuickHeaps == {0, 4}

InitQuick ==
    /\ CacheLoaded
    /\ nls_info = ZeroNlsInfo
    /\ r1 = NoRes /\ r2 = NoRes /\ cpc = "start"
    /\ op = "RtlIsNormalizedString"
    /\ \E form \in {1, 2, 13}, src \in NormInputs : arg = [form |-> form, src |-> src]

IsNormalizedStringCall ==
    /\ cpc = "start"
    /\ \E heap \in QuickHeaps :
          r1' = RtlIsNormalizedString(arg.form, arg.src, Len(arg.src), heap)
    /\ cpc' = "done"
    /\ UNCHANGED <<op, arg, r2, nls_info>> /\ UNCHANGED cacheVars

NextQuick == IsNormalizedStringCall

SpecQuick == InitQuick /\ [][NextQuick]_vars

(***************************************************************************)
(* C16: surrogates in RtlIsNormalizedString                                *)
(***************************************************************************)
\* the input holds a high surrogate with no low one after it, or a low one
\* with no high one before it
HasLoneSurrogate ==
    \E k \in 1..Len(arg.src) :
       \/ /\ IS_HIGH_SURROGATE(arg.src[k])
          /\ (k = Len(arg.src) \/ ~IS_LOW_SURROGATE(arg.src[k + 1]))
       \/ /\ IS_LOW_SURROGATE(arg.src[k])
          /\ (k = 1 \/ ~IS_HIGH_SURROGATE(arg.src[k - 1]))

\* C16: where the input holds an unpaired surrogate RtlIsNormalizedString
\* returns STATUS_NO_UNICODE_TRANSLATION, whatever stands before it
C16_SurrogateFatal ==
    (cpc = "done" /\ HasLoneSurrogate) => r1.status = "STATUS_NO_UNICODE_TRANSLATION"

\* where the call succeeded on an input with an unpaired surrogate, it stored
\* FALSE: the loop had met a code point whose quick check is No and stopped
C16_StopsAtNo ==
    (cpc = "done" /\ HasLoneSurrogate /\ r1.status # "STATUS_NO_UNICODE_TRANSLATION")
    => r1.status = "STATUS_SUCCESS" /\ r1.res = 0

\* U+00E9 and a high surrogate under form 2: STATUS_SUCCESS, FALSE stored
C16_Witness ==
    /\ cpc = "done" /\ arg.form = 2 /\ arg.src = <<233, 55296>>
    /\ r1.status = "STATUS_SUCCESS" /\ r1.res = 0

(***************************************************************************)
(* C17: normalization forms out of range                                   *)
(***************************************************************************)
\* thread t enters load_norm_table in this step, as the first thing
\* RtlNormalizeString and RtlIsNormalizedString do
Enters(t) == thr'[t].calls = thr[t].calls + 1

\* the step leaves the cache and the views the supplier mapped as they were
CacheKept == norm_tables' = norm_tables /\ views' = views

\* C17 as stated: a call with form 0 or a form of 16 or more returns
\* STATUS_INVALID_PARAMETER at once, no view mapped and the cache unchanged
C17_InvalidParameter ==
    [][\A t \in Threads :
          (Enters(t) /\ thr'[t].form \notin 1..15)
          => /\ thr'[t].pc = "done" /\ thr'[t].data = NULL
             /\ thr'[t].status = "STATUS_INVALID_PARAMETER"
             /\ CacheKept]_vars

\* C17: a call with form 0 returns STATUS_INVALID_PARAMETER and a call with a
\* form of 16 or more returns STATUS_OBJECT_NAME_NOT_FOUND, both at once,
\* with no view mapped and the cache unchanged
C17_OutOfRange ==
    [][\A t \in Threads :
          (Enters(t) /\ thr'[t].form \notin 1..15)
          => /\ thr'[t].pc = "done" /\ thr'[t].data = NULL
             /\ thr'[t].status = IF thr'[t].form = 0
                                 THEN "STATUS_INVALID_PARAMETER"
                                 ELSE "STATUS_OBJECT_NAME_NOT_FOUND"
             /\ CacheKept]_vars

\* a call with form 16 has returned while a table of form 13 is in the cache
C17_Witness ==
    /\ norm_tables[13] # NULL
    /\ \E t \in Threads : /\ thr[t].pc = "done" /\ thr[t].form = 16
                          /\ thr[t].status = "STATUS_OBJECT_NAME_NOT_FOUND"

(***************************************************************************)
(* The locale registry.  locale_init points lcids_index, lcnames_index and *)
(* locale_strings into the mapped locale file; here they are fields of arg *)
(* that no action changes, with the ids NtQueryDefaultLocale answers.      *)
(* Names are sequences of code units ending with the null character; <<>>  *)
(* is a null pointer.                                                      *)
(***************************************************************************)
LOCALE_USER_DEFAULT == 1024
LOCALE_SYSTEM_DEFAULT == 2048
LOCALE_CUSTOM_DEFAULT == 3072
LOCALE_CUSTOM_UNSPECIFIED == 4096
LOCALE_CUSTOM_UI_DEFAULT == 5120

\* de-DE, de-DE_phoneb, en, en-US, eo, zh-CHS, zh-Hans: the name of locale
\* data idx is LocaleNames[idx + 1], but for zh-CHS, another name of idx 5
LocaleNames ==
    << <<100, 101, 45, 68, 69>>,
       <<100, 101, 45, 68, 69, 95, 112, 104, 111, 110, 101, 98>>,
       <<101, 110>>,
       <<101, 110, 45, 85, 83>>,
       <<101, 111>>,
       <<122, 104, 45, 67, 72, 83>>,
       <<122, 104, 45, 72, 97, 110, 115>> >>

RECURSIVE PackNames(_)
\* the strings of the locale file: each name after its length, and a null
\* character after each
PackNames(k) ==
    IF k = 0 THEN <<>>
    ELSE PackNames(k - 1) \o <<Len(LocaleNames[k])>> \o LocaleNames[k] \o <<0>>

\* where the k-th name starts in the strings, its length first
NameOffset(k) == Len(PackNames(k - 1))

\* the NLS_LOCALE_DATA records by idx: en, zh-Hans and eo are neutral
LocaleData ==
    << [inotneutral |-> 1], [inotneutral |-> 1], [inotneutral |-> 0],
       [inotneutral |-> 1], [inotneutral |-> 0], [inotneutral |-> 0] >>

\* the index entry of the k-th name under id
NameEntry(k, id) ==
    [id |-> id, name |-> NameOffset(k), idx |-> IF k = 7 THEN 5 ELSE k - 1]

\* a locale file: the index by id holds zh-Hans, en, de-DE, en-US and
\* de-DE_phoneb, the index by name these and eo (which has no id of its own)
\* and zh-CHS
FullLocaleTable ==
    [lcids_index |-> <<NameEntry(7, 4), NameEntry(3, 9), NameEntry(1, 1031),
                       NameEntry(4, 1033), NameEntry(2, 66567)>>,
     lcnames_index |-> <<NameEntry(1, 1031), NameEntry(2, 66567), NameEntry(3, 9),
                         NameEntry(4, 1033), NameEntry(5, LOCALE_CUSTOM_UNSPECIFIED),
                         NameEntry(6, 4), NameEntry(7, 4)>>]

\* a locale file with en and en-US alone
SmallLocaleTable ==
    [lcids_index |-> <<NameEntry(3, 9), NameEntry(4, 1033)>>,
     lcnames_index |-> <<NameEntry(3, 9), NameEntry(4, 1033)>>]

\* a locale file whose index by id holds entries under the sentinel ids
SentinelLocaleTable ==
    [lcids_index |-> <<NameEntry(3, 9), NameEntry(1, LOCALE_USER_DEFAULT),
                       NameEntry(4, 1033), NameEntry(7, LOCALE_SYSTEM_DEFAULT),
                       NameEntry(2, LOCALE_CUSTOM_DEFAULT),
                       NameEntry(5, LOCALE_CUSTOM_UNSPECIFIED),
                       NameEntry(4, LOCALE_CUSTOM_UI_DEFAULT)>>,
     lcnames_index |-> <<NameEntry(1, 1031), NameEntry(3, 9), NameEntry(4, 1033),
                         NameEntry(5, LOCALE_CUSTOM_UNSPECIFIED)>>]

locale_strings == PackNames(Len(LocaleNames))

lcids_index == arg.locale_table.lcids_index

lcnames_index == arg.locale_table.lcnames_index

\* casemap_ascii( *n++ ) without the replacement of '_'
LocaleNameChar_NoUnderscore(ch) == casemap_ascii(ch)

\* casemap_ascii( *n++ ) and the replacement of '_' by '-'
LocaleNameChar(ch) == IF casemap_ascii(ch) = 95 THEN 45 ELSE casemap_ascii(ch)

RECURSIVE compare_locale_names(_, _, _, _)
\* compare_locale_names( n1 + p1, n2 + p2 ), p1 and p2 counted from 1
compare_locale_names(n1, p1, n2, p2) ==
    IF LocaleNameChar(n1[p1]) = 0 \/ LocaleNameChar(n1[p1]) # LocaleNameChar(n2[p2])
    THEN LocaleNameChar(n1[p1]) - LocaleNameChar(n2[p2])
    ELSE compare_locale_names(n1, p1 + 1, n2, p2 + 1)

RECURSIVE lcname_search(_, _, _)
\* the loop of find_lcname_entry from min and max on; the position found
lcname_search(name, min, max) ==
    IF min > max THEN NULL
    ELSE IF compare_locale_names(name, 1, locale_strings,
                                 lcnames_index[((min + max) \div 2) + 1].name + 2) < 0
    THEN lcname_search(name, min, ((min + max) \div 2) - 1)
    ELSE IF compare_locale_names(name, 1, locale_strings,
                                 lcnames_index[((min + max) \div 2) + 1].name + 2) > 0
    THEN lcname_search(name, ((min + max) \div 2) + 1, max)
    ELSE (min + max) \div 2

\* find_lcname_entry with max = nb_lcnames - 2
find_lcname_entry_ShortMax(name) ==
    IF name = <<>> THEN NULL ELSE lcname_search(name, 0, Len(lcnames_index) - 2)

\* find_lcname_entry( name ): the position in lcnames_index, or NULL
find_lcname_entry(name) ==
    IF name = <<>> THEN NULL ELSE lcname_search(name, 0, Len(lcnames_index) - 1)

RECURSIVE lcid_search(_, _, _)
\* the loop of find_lcid_entry from min and max on; the position found
lcid_search(lcid, min, max) ==
    IF min > max THEN NULL
    ELSE IF lcid < lcids_index[((min + max) \div 2) + 1].id
    THEN lcid_search(lcid, min, ((min + max) \div 2) - 1)
    ELSE IF lcid > lcids_index[((min + max) \div 2) + 1].id
    THEN lcid_search(lcid, ((min + max) \div 2) + 1, max)
    ELSE (min + max) \div 2

\* find_lcid_entry( lcid ): the position in lcids_index, or NULL
find_lcid_entry(lcid) == lcid_search(lcid, 0, Len(lcids_index) - 1)

get_locale_data(idx) == LocaleData[idx + 1]

\* NtQueryDefaultLocale( user, &lcid )
NtQueryDefaultLocale(user) == IF user THEN arg.user_lcid ELSE arg.system_lcid

\* the characters of the string at buf[at], its null character left out
wcs(buf, at) ==
    SubSeq(buf, at,
           (CHOOSE k \in at..Len(buf) : buf[k] = 0 /\ \A j \in at..(k - 1) : buf[j] # 0) - 1)

\* wcscpy( str->Buffer, name ): the buffer afterwards
wcscpy(buffer, name) ==
    name \o <<0>> \o SubSeq(buffer, Len(name) + 2, Len(buffer))

\* RtlLcidToLocaleName from "name = locale_strings + entry->name" on; at is
\* where the length stands in the strings, counted from 1
LcidNameStore(at, str, alloc, heap) ==
    IF alloc
    THEN IF heap = 0
         THEN [status |-> "STATUS_NO_MEMORY", str |-> [str EXCEPT !.Buffer = <<>>]]
         ELSE [status |-> "STATUS_SUCCESS",
               str |-> [Length |-> locale_strings[at] * 2,
                        MaximumLength |-> (locale_strings[at] + 1) * 2,
                        Buffer |-> wcs(locale_strings, at + 1) \o <<0>>]]
    ELSE IF str.MaximumLength < (locale_strings[at] + 1) * 2
    THEN [status |-> "STATUS_BUFFER_TOO_SMALL", str |-> str]
    ELSE [status |-> "STATUS_SUCCESS",
          str |-> [str EXCEPT !.Length = locale_strings[at] * 2,
                              !.Buffer = wcscpy(@, wcs(locale_strings, at + 1))]]

\* RtlLcidToLocaleName after find_lcid_entry returned entry
LcidNameFound(entry, str, flags, alloc, heap) ==
    IF entry = NULL THEN [status |-> "STATUS_INVALID_PARAMETER_1", str |-> str]
    ELSE IF (flags \div 2) % 2 = 0
            /\ get_locale_data(lcids_index[entry + 1].idx).inotneutral = 0
    THEN [status |-> "STATUS_INVALID_PARAMETER_1", str |-> str]
    ELSE LcidNameStore(lcids_index[entry + 1].name + 1, str, alloc, heap)

\* the switch of RtlLcidToLocaleName with the user and system ids exchanged
LcidNameSwitch_Exchanged(lcid, str, flags, alloc, heap) ==
    CASE lcid = LOCALE_USER_DEFAULT ->
            LcidNameFound(find_lcid_entry(NtQueryDefaultLocale(FALSE)), str, flags, alloc, heap)
      [] lcid \in {LOCALE_SYSTEM_DEFAULT, LOCALE_CUSTOM_DEFAULT} ->
            LcidNameFound(find_lcid_entry(NtQueryDefaultLocale(TRUE)), str, flags, alloc, heap)
      [] lcid = LOCALE_CUSTOM_UI_DEFAULT -> [status |-> "STATUS_UNSUCCESSFUL", str |-> str]
      [] lcid = LOCALE_CUSTOM_UNSPECIFIED ->
            [status |-> "STATUS_INVALID_PARAMETER_1", str |-> str]
      [] OTHER -> LcidNameFound(find_lcid_entry(lcid), str, flags, alloc, heap)

\* the switch of RtlLcidToLocaleName and what follows it
LcidNameSwitch(lcid, str, flags, alloc, heap) ==
    CASE lcid = LOCALE_USER_DEFAULT ->
            LcidNameFound(find_lcid_entry(NtQueryDefaultLocale(TRUE)), str, flags, alloc, heap)
      [] lcid \in {LOCALE_SYSTEM_DEFAULT, LOCALE_CUSTOM_DEFAULT} ->
            LcidNameFound(find_lcid_entry(NtQueryDefaultLocale(FALSE)), str, flags, alloc, heap)
      [] lcid = LOCALE_CUSTOM_UI_DEFAULT -> [status |-> "STATUS_UNSUCCESSFUL", str |-> str]
      [] lcid = LOCALE_CUSTOM_UNSPECIFIED ->
            [status |-> "STATUS_INVALID_PARAMETER_1", str |-> str]
      [] OTHER -> LcidNameFound(find_lcid_entry(lcid), str, flags, alloc, heap)

\* RtlLcidToLocaleName( lcid, str, flags, alloc ): the status and the
\* UNICODE_STRING afterwards.  str is <<>> for a null pointer, else the
\* UNICODE_STRING in a sequence of length one
RtlLcidToLocaleName(lcid, str, flags, alloc, heap) ==
    IF str = <<>> THEN [status |-> "STATUS_INVALID_PARAMETER_2", str |-> <<>>]
    ELSE [status |-> LcidNameSwitch(lcid, str[1], flags, alloc, heap).status,
          str |-> <<LcidNameSwitch(lcid, str[1], flags, alloc, heap).str>>]

\* RtlLocaleNameToLcid with every name taken, neutral or not
LocaleNameFound_AnyNeutral(entry, lcid, flags) ==
    IF entry = NULL THEN [status |-> "STATUS_INVALID_PARAMETER_1", lcid |-> lcid]
    ELSE [status |-> "STATUS_SUCCESS", lcid |-> lcnames_index[entry + 1].id]

\* RtlLocaleNameToLcid after find_lcname_entry returned entry; lcid is what
\* *lcid held before
LocaleNameFound(entry, lcid, flags) ==
    IF entry = NULL THEN [status |-> "STATUS_INVALID_PARAMETER_1", lcid |-> lcid]
    ELSE IF (flags \div 2) % 2 = 0
            /\ get_locale_data(lcnames_index[entry + 1].idx).inotneutral = 0
    THEN [status |-> "STATUS_INVALID_PARAMETER_1", lcid |-> lcid]
    ELSE [status |-> "STATUS_SUCCESS", lcid |-> lcnames_index[entry + 1].id]

\* RtlLocaleNameToLcid( name, lcid, flags ): the status and *lcid afterwards
RtlLocaleNameToLcid(name, lcid, flags) ==
    LocaleNameFound(find_lcname_entry(name), lcid, flags)

(***************************************************************************)
(* In SpecLocale a client calls RtlLcidToLocaleName and looks the name it  *)
(* got up with RtlLocaleNameToLcid, or calls RtlLocaleNameToLcid with a    *)
(* name of its own.  SpecSentinel is the same over locale files that hold  *)
(* entries under the sentinel ids as well.                                 *)
(***************************************************************************)
\* the ids asked for: those of the files, the sentinels, two ids in no file
LocaleIds ==
    {4, 9, 1031, 1033, 66567, 0, 3082,
     LOCALE_USER_DEFAULT, LOCALE_SYSTEM_DEFAULT, LOCALE_CUSTOM_DEFAULT,
     LOCALE_CUSTOM_UNSPECIFIED, LOCALE_CUSTOM_UI_DEFAULT}

\* the UNICODE_STRING arguments: a null pointer, and buffers of 3, 6 and 13
\* characters that hold something already
LocaleStrs ==
    {<<>>} \cup {<<[Length |-> 2, MaximumLength |-> 2 * n, Buffer |-> Rep(88, n)]>> :
                 n \in {3, 6, 13}}

\* the names asked for: a null pointer, the names of the files as they are
\* stored, EN_us, DE-de-PHONEB, zh-hans, e, en-, fr
LocaleNameArgs ==
    {<<>>} \cup {LocaleNames[k] \o <<0>> : k \in 1..Len(LocaleNames)}
    \cup {<<69, 78, 95, 117, 115, 0>>,
          <<68, 69, 45, 100, 101, 45, 80, 72, 79, 78, 69, 66, 0>>,
          <<122, 104, 45, 104, 97, 110, 115, 0>>,
          <<101, 0>>, <<101, 110, 45, 0>>, <<102, 114, 0>>}

\* what NtQueryDefaultLocale answers for the user and for the system
DefaultLcids == {<<1033, 1031>>, <<1031, 1031>>, <<9, 1033>>, <<3082, 4>>}

\* the state before a call, over the locale files Tables
InitLocaleOver(Tables) ==
    /\ CacheLoaded
    /\ nls_info = ZeroNlsInfo
    /\ r1 = NoRes /\ r2 = NoRes /\ cpc = "start"
    /\ \E tab \in Tables, d \in DefaultLcids, flags \in {0, 1, 2} :
          \/ /\ op = "RtlLcidToLocaleName"
             /\ \E lcid \in LocaleIds, str \in LocaleStrs, alloc \in BOOLEAN :
                   arg = [locale_table |-> tab, user_lcid |-> d[1], system_lcid |-> d[2],
                          flags |-> flags, lcid |-> lcid, str |-> str, alloc |-> alloc]
          \/ /\ op = "RtlLocaleNameToLcid"
             /\ \E name \in LocaleNameArgs :
                   arg = [locale_table |-> tab, user_lcid |-> d[1], system_lcid |-> d[2],
                          flags |-> flags, name |-> name, lcid |-> 57005]

InitLocale == InitLocaleOver({FullLocaleTable, SmallLocaleTable})

InitSentinel == InitLocaleOver({FullLocaleTable, SentinelLocaleTable})

LcidToLocaleNameCall ==
    /\ cpc = "start" /\ op = "RtlLcidToLocaleName"
    /\ \E heap \in {0, 1} :
          r1' = RtlLcidToLocaleName(arg.lcid, arg.str, arg.flags, arg.alloc, heap)
    /\ cpc' = "named"
    /\ UNCHANGED <<op, arg, r2, nls_info>> /\ UNCHANGED cacheVars

\* the client looks up the name RtlLcidToLocaleName stored; entry is what
\* find_lcname_entry returned inside
NameOfLcidCall ==
    /\ cpc = "named" /\ r1.status = "STATUS_SUCCESS"
    /\ r2' = [status |-> RtlLocaleNameToLcid(r1.str[1].Buffer, 57005, arg.flags).status,
              lcid |-> RtlLocaleNameToLcid(r1.str[1].Buffer, 57005, arg.flags).lcid,
              entry |-> find_lcname_entry(r1.str[1].Buffer)]
    /\ cpc' = "done"
    /\ UNCHANGED <<op, arg, r1, nls_info>> /\ UNCHANGED cacheVars

LocaleNameToLcidCall ==
    /\ cpc = "start" /\ op = "RtlLocaleNameToLcid"
    /\ r2' = [status |-> RtlLocaleNameToLcid(arg.name, arg.lcid, arg.flags).status,
              lcid |-> RtlLocaleNameToLcid(arg.name, arg.lcid, arg.flags).lcid,
              entry |-> find_lcname_entry(arg.name)]
    /\ cpc' = "done"
    /\ UNCHANGED <<op, arg, r1, nls_info>> /\ UNCHANGED cacheVars

NextLocale == LcidToLocaleNameCall \/ NameOfLcidCall \/ LocaleNameToLcidCall

SpecLocale == InitLocale /\ [][NextLocale]_vars

SpecSentinel == InitSentinel /\ [][NextLocale]_vars

(***************************************************************************)
(* C18: the index by id and the index by name agree                        *)
(***************************************************************************)
\* the id asked for is the id of an entry of lcids_index
AskedIdInIndex ==
    /\ op = "RtlLcidToLocaleName"
    /\ \E k \in 1..Len(lcids_index) : lcids_index[k].id = arg.lcid

\* the caller's UNICODE_STRING has room for the longest name
RoomForName ==
    /\ arg.str # <<>> /\ ~arg.alloc
    /\ arg.str[1].MaximumLength >= 26

\* C18: for an id of lcids_index, RtlLcidToLocaleName with flag 2 stores a
\* name where it has room for it, and RtlLocaleNameToLcid / find_lcname_entry
\* find an entry for the name stored, with the same id and the same idx
C18_IdNameRoundTrip ==
    /\ (cpc = "named" /\ AskedIdInIndex /\ RoomForName /\ arg.flags = 2)
       => r1.status = "STATUS_SUCCESS"
    /\ (cpc = "done" /\ AskedIdInIndex)
       => /\ r2.status = "STATUS_SUCCESS" /\ r2.lcid = arg.lcid
          /\ r2.entry # NULL
          /\ lcnames_index[r2.entry + 1].id = arg.lcid
          /\ lcnames_index[r2.entry + 1].idx
                = lcids_index[find_lcid_entry(arg.lcid) + 1].idx

\* id 4 of the full file went to zh-Hans and came back from the last entry of
\* the index by name
C18_Witness ==
    /\ cpc = "done" /\ op = "RtlLcidToLocaleName" /\ arg.lcid = 4 /\ arg.flags = 2
    /\ arg.locale_table = FullLocaleTable
    /\ wcs(r1.str[1].Buffer, 1) = LocaleNames[7]
    /\ r2.status = "STATUS_SUCCESS" /\ r2.lcid = 4 /\ r2.entry = 6

(***************************************************************************)
(* C19: neutral locales                                                    *)
(***************************************************************************)
\* the id RtlLcidToLocaleName searches for
SearchedLcid ==
    CASE arg.lcid = LOCALE_USER_DEFAULT -> arg.user_lcid
      [] arg.lcid \in {LOCALE_SYSTEM_DEFAULT, LOCALE_CUSTOM_DEFAULT} -> arg.system_lcid
      [] OTHER -> arg.lcid

\* RtlLcidToLocaleName was asked for a neutral entry
AskedNeutralId ==
    /\ cpc = "named" /\ arg.str # <<>>
    /\ arg.lcid \notin {LOCALE_CUSTOM_UI_DEFAULT, LOCALE_CUSTOM_UNSPECIFIED}
    /\ \E k \in 1..Len(lcids_index) :
          /\ lcids_index[k].id = SearchedLcid
          /\ get_locale_data(lcids_index[k].idx).inotneutral = 0

\* RtlLocaleNameToLcid was asked for a neutral entry
AskedNeutralName ==
    /\ cpc = "done" /\ op = "RtlLocaleNameToLcid"
    /\ find_lcname_entry(arg.name) # NULL
    /\ get_locale_data(lcnames_index[find_lcname_entry(arg.name) + 1].idx).inotneutral = 0

NotFoundStatus == {"STATUS_NOT_FOUND", "STATUS_OBJECT_NAME_NOT_FOUND"}

\* bit 2 of the flags is set
NeutralAllowed == (arg.flags \div 2) % 2 = 1

\* C19 as stated: a neutral entry without flag 2 gives a NotFound status and
\* the outputs unchanged; with flag 2 the lookup succeeds
C19_NeutralNotFound ==
    /\ (AskedNeutralId /\ ~NeutralAllowed)
       => r1.status \in NotFoundStatus /\ r1.str = arg.str
    /\ (AskedNeutralName /\ ~NeutralAllowed)
       => r2.status \in NotFoundStatus /\ r2.lcid = arg.lcid
    /\ (AskedNeutralId /\ NeutralAllowed) => r1.status = "STATUS_SUCCESS"
    /\ (AskedNeutralName /\ NeutralAllowed) => r2.status = "STATUS_SUCCESS"

\* C19: a neutral entry without flag 2 gives STATUS_INVALID_PARAMETER_1 and
\* the outputs unchanged; with flag 2 RtlLocaleNameToLcid succeeds, and
\* RtlLcidToLocaleName succeeds or fails for want of room or of memory
C19_NeutralRefused ==
    /\ (AskedNeutralId /\ ~NeutralAllowed)
       => r1.status = "STATUS_INVALID_PARAMETER_1" /\ r1.str = arg.str
    /\ (AskedNeutralName /\ ~NeutralAllowed)
       => r2.status = "STATUS_INVALID_PARAMETER_1" /\ r2.lcid = arg.lcid
    /\ (AskedNeutralId /\ NeutralAllowed)
       => /\ r1.status \in {"STATUS_SUCCESS", "STATUS_BUFFER_TOO_SMALL", "STATUS_NO_MEMORY"}
          /\ r1.status = "STATUS_BUFFER_TOO_SMALL"
             => ~arg.alloc /\ arg.str[1].MaximumLength < 26 /\ r1.str = arg.str
          /\ r1.status = "STATUS_NO_MEMORY" => arg.alloc
    /\ (AskedNeutralName /\ NeutralAllowed)
       => /\ r2.status = "STATUS_SUCCESS"
          /\ r2.lcid = lcnames_index[find_lcname_entry(arg.name) + 1].id

\* id 9 (en) was refused without flag 2, the string as it was
C19_Witness ==
    /\ AskedNeutralId /\ arg.lcid = 9 /\ arg.flags = 0
    /\ r1.status = "STATUS_INVALID_PARAMETER_1" /\ r1.str = arg.str

(***************************************************************************)
(* C20: sentinel ids in RtlLcidToLocaleName                                *)
(***************************************************************************)
\* what RtlLcidToLocaleName may return when it searches the index for lcid
SearchResults(lcid) ==
    {[status |-> LcidNameFound(find_lcid_entry(lcid), arg.str[1], arg.flags,
                               arg.alloc, heap).status,
      str |-> <<LcidNameFound(find_lcid_entry(lcid), arg.str[1], arg.flags,
                              arg.alloc, heap).str>>] : heap \in {0, 1}}

\* C20: LOCALE_USER_DEFAULT is answered as the user default id is,
\* LOCALE_SYSTEM_DEFAULT and LOCALE_CUSTOM_DEFAULT as the system default id
\* is, LOCALE_CUSTOM_UI_DEFAULT fails and LOCALE_CUSTOM_UNSPECIFIED fails with
\* an invalid parameter status, whatever the index holds under these ids
C20_Sentinels ==
    (cpc = "named")
    => /\ (arg.lcid = LOCALE_USER_DEFAULT /\ arg.str # <<>>)
          => r1 \in SearchResults(arg.user_lcid)
       /\ (arg.lcid \in {LOCALE_SYSTEM_DEFAULT, LOCALE_CUSTOM_DEFAULT} /\ arg.str # <<>>)
          => r1 \in SearchResults(arg.system_lcid)
       /\ arg.lcid = LOCALE_CUSTOM_UI_DEFAULT
          => r1.status # "STATUS_SUCCESS" /\ r1.str = arg.str
       /\ arg.lcid = LOCALE_CUSTOM_UNSPECIFIED
          => /\ r1.status \in {"STATUS_INVALID_PARAMETER_1", "STATUS_INVALID_PARAMETER_2"}
             /\ r1.str = arg.str

\* LOCALE_USER_DEFAULT gave en-US, the user default, from a file whose index
\* holds de-DE under the id LOCALE_USER_DEFAULT
C20_Witness ==
    /\ cpc = "named" /\ arg.lcid = LOCALE_USER_DEFAULT /\ arg.user_lcid = 1033
    /\ arg.locale_table = SentinelLocaleTable
    /\ r1.status = "STATUS_SUCCESS" /\ wcs(r1.str[1].Buffer, 1) = LocaleNames[4]

(***************************************************************************)
(* Case mapping of single characters.  A function that reads through a     *)
(* null table pointer reads an address below 0x200, which is never mapped: *)
(* the call ends in an access violation, and Fault stands for that.        *)
(***************************************************************************)
\* the value a function returned, as a result record
Returned(ch) == [status |-> "returned", reslen |-> 1, out |-> <<ch>>]

\* RtlUpcaseUnicodeChar( wch )
RtlUpcaseUnicodeChar(wch) ==
    IF nls_info.UpperCaseTable = NULL THEN Fault
    ELSE Returned(casemap(nls_info.UpperCaseTable, wch))

\* RtlDowncaseUnicodeChar( wch )
RtlDowncaseUnicodeChar(wch) ==
    IF nls_info.LowerCaseTable # NULL
    THEN Returned(casemap(nls_info.LowerCaseTable, wch))
    ELSE IF wch >= 65 /\ wch <= 90 THEN Returned(wch + 32)
    ELSE Returned(wch)

\* towlower( ch )
towlower(ch) ==
    IF ch >= 256 THEN Returned(ch)
    ELSE IF nls_info.LowerCaseTable = NULL THEN Fault
    ELSE Returned(casemap(nls_info.LowerCaseTable, ch))

\* towupper( ch )
towupper(ch) ==
    IF nls_info.UpperCaseTable # NULL
    THEN Returned(casemap(nls_info.UpperCaseTable, ch))
    ELSE Returned(casemap_ascii(ch))

(***************************************************************************)
(* In SpecUpcase a client maps one code unit to upper case and maps the    *)
(* result again, with the case table installed or not yet.                 *)
(***************************************************************************)
UpcaseOf(ch) ==
    IF op = "towupper" THEN towupper(ch) ELSE RtlUpcaseUnicodeChar(ch)

InitUpcase ==
    /\ CacheLoaded
    /\ nls_info \in {ZeroNlsInfo, RtlInitNlsTables("sbcs", "dbcs")}
    /\ r1 = NoRes /\ r2 = NoRes /\ cpc = "start"
    /\ op \in {"towupper", "RtlUpcaseUnicodeChar"}
    /\ \E ch \in 0..65535 : arg = [ch |-> ch]

UpcaseCall ==
    /\ cpc = "start"
    /\ r1' = UpcaseOf(arg.ch)
    /\ cpc' = IF r1'.status = "returned" THEN "mapped" ELSE "done"
    /\ UNCHANGED <<op, arg, r2, nls_info>> /\ UNCHANGED cacheVars

UpcaseAgainCall ==
    /\ cpc = "mapped"
    /\ r2' = UpcaseOf(r1.out[1])
    /\ cpc' = "done"
    /\ UNCHANGED <<op, arg, r1, nls_info>> /\ UNCHANGED cacheVars

NextUpcase == UpcaseCall \/ UpcaseAgainCall

SpecUpcase == InitUpcase /\ [][NextUpcase]_vars

CaseFolded(how, ch) ==
    CASE how = "table" -> casemap(nls_info.UpperCaseTable, ch)
      [] how = "ascii" -> casemap_ascii(ch)
      [] OTHER -> ch

\* which of its three loops a function with a test on the table runs
CaseLoop(case_insensitive) ==
    IF ~case_insensitive THEN "exact"
    ELSE IF nls_info.UpperCaseTable # NULL THEN "table" ELSE "ascii"

RECURSIVE CompareLoop(_, _, _, _)
\* while (!ret && len--) ret = ... from character k on
CompareLoop(how, s1, s2, k) ==
    IF k > Min(Len(s1), Len(s2)) THEN Len(s1) - Len(s2)
    ELSE IF CaseFolded(how, s1[k]) # CaseFolded(how, s2[k])
    THEN CaseFolded(how, s1[k]) - CaseFolded(how, s2[k])
    ELSE CompareLoop(how, s1, s2, k + 1)

\* RtlCompareUnicodeStrings( s1, len1, s2, len2, case_insensitive )
RtlCompareUnicodeStrings(s1, s2, case_insensitive) ==
    [status |-> "returned", reslen |-> CompareLoop(CaseLoop(case_insensitive), s1, s2, 1),
     out |-> <<>>]

\* RtlPrefixUnicodeString( s1, s2, ignore_case ): reslen is 1 for TRUE
RtlPrefixUnicodeString(s1, s2, ignore_case) ==
    IF Len(s1) > Len(s2) THEN [status |-> "returned", reslen |-> 0, out |-> <<>>]
    ELSE IF ignore_case /\ Len(s1) > 0 /\ nls_info.UpperCaseTable = NULL THEN Fault
    ELSE [status |-> "returned",
          reslen |-> IF \A i \in 1..Len(s1) :
                           CaseFolded(IF ignore_case THEN "table" ELSE "exact", s1[i])
                           = CaseFolded(IF ignore_case THEN "table" ELSE "exact", s2[i])
                     THEN 1 ELSE 0,
          out |-> <<>>]

\* *hash * 65599 + ch in 32 bits; a ULONG is kept as <<high word, low word>>
\* and 65599 taken as 65536 + 63
HashStep(hash, ch) ==
    <<(hash[2] + hash[1] * 63 + ((hash[2] * 63 + ch) \div 65536)) % 65536,
      (hash[2] * 63 + ch) % 65536>>

RECURSIVE HashLoop(_, _, _)
\* *hash after the first k characters of the string
HashLoop(how, string, k) ==
    IF k = 0 THEN <<0, 0>>
    ELSE HashStep(HashLoop(how, string, k - 1), CaseFolded(how, string[k]))

\* RtlHashUnicodeString( string, case_insensitive, alg, hash ), alg being
\* HASH_STRING_ALGORITHM_DEFAULT (0), HASH_STRING_ALGORITHM_X65599 (1) or
\* another number; out holds *hash, high word first
RtlHashUnicodeString(string, case_insensitive, alg) ==
    IF alg \notin {0, 1}
    THEN [status |-> "STATUS_INVALID_PARAMETER", reslen |-> 0, out |-> <<>>]
    ELSE [status |-> "STATUS_SUCCESS", reslen |-> 1,
          out |-> HashLoop(CaseLoop(case_insensitive), string, Len(string))]

\* RtlUpcaseUnicodeString and RtlDowncaseUnicodeString over the case table
\* at table; destlen is dest->MaximumLength in characters
CaseUnicodeString(table, destlen, src, alloc, heap) ==
    IF alloc /\ heap = 0
    THEN [status |-> "STATUS_NO_MEMORY", reslen |-> 0, out |-> <<>>]
    ELSE IF ~alloc /\ Len(src) > destlen
    THEN [status |-> "STATUS_BUFFER_OVERFLOW", reslen |-> 0, out |-> <<>>]
    ELSE IF Len(src) > 0 /\ table = NULL THEN Fault
    ELSE [status |-> "STATUS_SUCCESS", reslen |-> Len(src),
          out |-> [i \in 1..Len(src) |-> casemap(table, src[i])]]

\* RtlUpcaseUnicodeString( dest, src, alloc )
RtlUpcaseUnicodeString(destlen, src, alloc, heap) ==
    CaseUnicodeString(nls_info.UpperCaseTable, destlen, src, alloc, heap)

\* RtlDowncaseUnicodeString( dest, src, alloc )
RtlDowncaseUnicodeString(destlen, src, alloc, heap) ==
    CaseUnicodeString(nls_info.LowerCaseTable, destlen, src, alloc, heap)

\* RtlUpcaseUnicodeToOemN( dst, dstlen, reslen, src, srclen )
RtlUpcaseUnicodeToOemN(dstlen, src) ==
    IF nls_info.OemTableInfo.WideCharTable # NULL
    THEN RtlUpcaseUnicodeToCustomCPN(nls_info, nls_info.OemTableInfo, dstlen, src)
    ELSE [status |-> "STATUS_SUCCESS", reslen |-> Min(Len(src), dstlen),
          out |-> [i \in 1..Min(Len(src), dstlen) |->
                      IF src[i] > 127 THEN 63 ELSE casemap_ascii(src[i])]]

(***************************************************************************)
(* In SpecCase a client calls one of the case functions, before            *)
(* RtlResetRtlTranslations installed the tables or after.                  *)
(***************************************************************************)
MaxCaseLen == 2

\* A, a, [, U+00E9, U+00FF, U+3161
CaseUnits == {65, 97, 91, 233, 255, 12641}

CaseStrings == SeqUpTo(CaseUnits, MaxCaseLen)

CharOps == {"RtlUpcaseUnicodeChar", "RtlDowncaseUnicodeChar", "towupper", "towlower"}

StringOps == {"RtlUpcaseUnicodeString", "RtlDowncaseUnicodeString", "RtlUpcaseUnicodeToOemN"}

PairOps == {"RtlCompareUnicodeStrings", "RtlPrefixUnicodeString"}

InitCase ==
    /\ CacheLoaded
    /\ nls_info \in {ZeroNlsInfo, RtlInitNlsTables("sbcs", "sbcs")}
    /\ r1 = NoRes /\ r2 = NoRes /\ cpc = "start"
    /\ \/ /\ op \in CharOps
          /\ \E ch \in CaseUnits : arg = [ch |-> ch]
       \/ /\ op \in StringOps
          /\ \E src \in CaseStrings, destlen \in 0..MaxCaseLen, alloc \in BOOLEAN :
                arg = [src |-> src, destlen |-> destlen, alloc |-> alloc]
       \/ /\ op \in PairOps
          /\ \E s1 \in CaseStrings, s2 \in CaseStrings, ci \in BOOLEAN :
                arg = [s1 |-> s1, s2 |-> s2, case_insensitive |-> ci]
       \/ /\ op = "RtlHashUnicodeString"
          /\ \E src \in CaseStrings, ci \in BOOLEAN, alg \in 0..2 :
                arg = [src |-> src, case_insensitive |-> ci, alg |-> alg]

\* the call is over with result r
CaseDone(r) ==
    /\ cpc = "start"
    /\ r1' = r /\ cpc' = "done"
    /\ UNCHANGED <<op, arg, r2, nls_info>> /\ UNCHANGED cacheVars

UpcaseUnicodeCharCall ==
    op = "RtlUpcaseUnicodeChar" /\ CaseDone(RtlUpcaseUnicodeChar(arg.ch))

DowncaseUnicodeCharCall ==
    op = "RtlDowncaseUnicodeChar" /\ CaseDone(RtlDowncaseUnicodeChar(arg.ch))

TowupperCall == op = "towupper" /\ CaseDone(towupper(arg.ch))

TowlowerCall == op = "towlower" /\ CaseDone(towlower(arg.ch))

UpcaseUnicodeStringCall ==
    /\ op = "RtlUpcaseUnicodeString"
    /\ \E heap \in {0, 1} :
          CaseDone(RtlUpcaseUnicodeString(arg.destlen, arg.src, arg.alloc, heap))

DowncaseUnicodeStringCall ==
    /\ op = "RtlDowncaseUnicodeString"
    /\ \E heap \in {0, 1} :
          CaseDone(RtlDowncaseUnicodeString(arg.destlen, arg.src, arg.alloc, heap))

UpcaseUnicodeToOemNCall ==
    op = "RtlUpcaseUnicodeToOemN" /\ CaseDone(RtlUpcaseUnicodeToOemN(arg.destlen, arg.src))

CompareUnicodeStringsCall ==
    /\ op = "RtlCompareUnicodeStrings"
    /\ CaseDone(RtlCompareUnicodeStrings(arg.s1, arg.s2, arg.case_insensitive))

PrefixUnicodeStringCall ==
    /\ op = "RtlPrefixUnicodeString"
    /\ CaseDone(RtlPrefixUnicodeString(arg.s1, arg.s2, arg.case_insensitive))

HashUnicodeStringCall ==
    /\ op = "RtlHashUnicodeString"
    /\ CaseDone(RtlHashUnicodeString(arg.src, arg.case_insensitive, arg.alg))

NextCase ==
    \/ UpcaseUnicodeCharCall \/ DowncaseUnicodeCharCall \/ TowupperCall \/ TowlowerCall
    \/ UpcaseUnicodeStringCall \/ DowncaseUnicodeStringCall \/ UpcaseUnicodeToOemNCall
    \/ CompareUnicodeStringsCall \/ PrefixUnicodeStringCall \/ HashUnicodeStringCall

SpecCase == InitCase /\ [][NextCase]_vars

(***************************************************************************)
(* C23: case mapping before the tables are installed                       *)
(***************************************************************************)
\* no table has been installed
ColdStart == nls_info = ZeroNlsInfo

\* C23: before a table is installed no case function reads through the
\* unset table pointer
C23_NoUnsetTableRead ==
    (ColdStart /\ cpc = "done") => r1.status # "ACCESS_VIOLATION"

\* before a table is installed the functions that test the table pointer
\* return, and no code unit outside A-Z and a-z is changed by them
C23_TestedFallback ==
    (ColdStart /\ cpc = "done")
    => /\ op \in {"RtlDowncaseUnicodeChar", "towupper", "RtlUpcaseUnicodeToOemN",
                  "RtlCompareUnicodeStrings", "RtlHashUnicodeString"}
          => r1.status # "ACCESS_VIOLATION"
       /\ op = "towupper" => r1.out = <<casemap_ascii(arg.ch)>>
       /\ (op = "RtlDowncaseUnicodeChar" /\ (arg.ch < 65 \/ arg.ch > 90))
          => r1.out = <<arg.ch>>
       /\ (op = "RtlCompareUnicodeStrings" /\ arg.case_insensitive)
          => r1.reslen = CompareLoop("exact",
                                     [i \in 1..Len(arg.s1) |-> casemap_ascii(arg.s1[i])],
                                     [i \in 1..Len(arg.s2) |-> casemap_ascii(arg.s2[i])], 1)

\* RtlUpcaseUnicodeChar was called before a table was installed
C23_Witness ==
    /\ ColdStart /\ cpc = "done" /\ op = "RtlUpcaseUnicodeChar" /\ arg.ch = 97
    /\ r1.status = "ACCESS_VIOLATION"

(***************************************************************************)
(* C22: find_lcname_entry                                                  *)
(***************************************************************************)
\* a character with a-z folded to A-Z and '_' taken as '-'
FoldedChar(ch) ==
    IF ch >= 97 /\ ch <= 122 THEN ch - 32 ELSE IF ch = 95 THEN 45 ELSE ch

\* the characters of a name before its null character, folded
FoldedName(buf, at) == [i \in 1..Len(wcs(buf, at)) |-> FoldedChar(wcs(buf, at)[i])]

\* the query equals the name of the k-th entry of lcnames_index
QueryEquals(k) ==
    FoldedName(arg.name, 1) = FoldedName(locale_strings, lcnames_index[k].name + 2)

RECURSIVE lcname_probes(_, _, _)
\* the number of entries the loop of find_lcname_entry compares the name with
lcname_probes(name, min, max) ==
    IF min > max THEN 0
    ELSE IF compare_locale_names(name, 1, locale_strings,
                                 lcnames_index[((min + max) \div 2) + 1].name + 2) < 0
    THEN 1 + lcname_probes(name, min, ((min + max) \div 2) - 1)
    ELSE IF compare_locale_names(name, 1, locale_strings,
                                 lcnames_index[((min + max) \div 2) + 1].name + 2) > 0
    THEN 1 + lcname_probes(name, ((min + max) \div 2) + 1, max)
    ELSE 1

RECURSIVE Log2Floor(_)
Log2Floor(n) == IF n <= 1 THEN 0 ELSE 1 + Log2Floor(n \div 2)

\* C22: find_lcname_entry returns an entry exactly when the name of some
\* entry equals the query with a-z folded and '_' taken as '-', the entry
\* returned is such an entry, a null name finds none, and no more than
\* floor(log2(nb_lcnames)) + 1 entries are compared
C22_FindByName ==
    (cpc = "done" /\ op = "RtlLocaleNameToLcid")
    => /\ arg.name = <<>> => r2.entry = NULL
       /\ arg.name # <<>>
          => /\ (r2.entry # NULL) = (\E k \in 1..Len(lcnames_index) : QueryEquals(k))
             /\ r2.entry # NULL => QueryEquals(r2.entry + 1)
             /\ lcname_probes(arg.name, 0, Len(lcnames_index) - 1)
                   <= Log2Floor(Len(lcnames_index)) + 1

\* EN_us was found as en-US in the full file
C22_Witness ==
    /\ cpc = "done" /\ op = "RtlLocaleNameToLcid"
    /\ arg.locale_table = FullLocaleTable
    /\ arg.name = <<69, 78, 95, 117, 115, 0>>
    /\ r2.entry = 3 /\ lcnames_index[r2.entry + 1].id = 1033

(***************************************************************************)
(* The allocate-decompose loop of RtlNormalizeString, step by step.  r1 is *)
(* the frame of the call: buf_len, the number of times the loop went       *)
(* back (tries) and what decompose_string returned last (d); r2 is what    *)
(* the call returned.  RtlAllocateHeap may fail at any turn; the caller's   *)
(* buffer holds AmpleLen code units.                                       *)
(***************************************************************************)
NoDecomposed == [status |-> "none", len |-> 0, out |-> <<>>]

InitRetry ==
    /\ CacheLoaded
    /\ nls_info = ZeroNlsInfo
    /\ r1 = [buf_len |-> 0, tries |-> 0, d |-> NoDecomposed]
    /\ r2 = NoRes /\ cpc = "start"
    /\ op = "RtlNormalizeString"
    /\ \E form \in {1, 13}, src \in NormInputs \ {<<>>} :
          arg = [form |-> form, src |-> src]

\* buf_len = src_len * 4
RetryEnter ==
    /\ cpc = "start"
    /\ r1' = [r1 EXCEPT !.buf_len = Len(arg.src) * 4]
    /\ cpc' = "alloc"
    /\ UNCHANGED <<op, arg, r2, nls_info>> /\ UNCHANGED cacheVars

\* buf = RtlAllocateHeap( ... buf_len * sizeof(WCHAR) ) gives a buffer
RetryAllocate ==
    /\ cpc = "alloc"
    /\ cpc' = "decompose"
    /\ UNCHANGED <<op, arg, r1, r2, nls_info>> /\ UNCHANGED cacheVars

\* if (!buf) return STATUS_NO_MEMORY
RetryNoMemory ==
    /\ cpc = "alloc"
    /\ r2' = [status |-> "STATUS_NO_MEMORY", reslen |-> AmpleLen, out |-> <<>>]
    /\ cpc' = "done"
    /\ UNCHANGED <<op, arg, r1, nls_info>> /\ UNCHANGED cacheVars

\* the frame after decompose_string returned d with a buffer of buf_len; the
\* buffer is larger by one than what decompose_string asked for
RetryDecomposed_Fixed(frame, d) ==
    IF d.status = "STATUS_BUFFER_TOO_SMALL"
    THEN [buf_len |-> frame.buf_len, tries |-> frame.tries + 1, d |-> d]
    ELSE [buf_len |-> d.len, tries |-> frame.tries, d |-> d]

\* the frame after decompose_string( info, src, src_len, buf, &buf_len )
\* returned d
RetryDecomposed(frame, d) ==
    IF d.status = "STATUS_BUFFER_TOO_SMALL"
    THEN [buf_len |-> d.len, tries |-> frame.tries + 1, d |-> d]
    ELSE [buf_len |-> d.len, tries |-> frame.tries, d |-> d]

\* status = decompose_string( ... ); if (status != STATUS_BUFFER_TOO_SMALL)
\* break; RtlFreeHeap( ... buf )
RetryDecompose ==
    /\ cpc = "decompose"
    /\ r1' = RetryDecomposed(r1, decompose_string(norm_tables[arg.form], arg.src,
                                                  Len(arg.src), r1.buf_len))
    /\ cpc' = IF r1'.d.status = "STATUS_BUFFER_TOO_SMALL" THEN "alloc" ELSE "compose"
    /\ UNCHANGED <<op, arg, r2, nls_info>> /\ UNCHANGED cacheVars

\* what follows the loop: compose_string, the copy, the status returned
RetryCompose ==
    /\ cpc = "compose"
    /\ r2' = NormalizeCompose(norm_tables[arg.form], r1.d, AmpleLen)
    /\ cpc' = "done"
    /\ UNCHANGED <<op, arg, r1, nls_info>> /\ UNCHANGED cacheVars

NextRetry ==
    RetryEnter \/ RetryAllocate \/ RetryNoMemory \/ RetryDecompose \/ RetryCompose

SpecRetry == InitRetry /\ [][NextRetry]_vars

\* the thread moves on: every step of NextRetry is one, and one is possible
\* wherever the call has not returned
RetryMoves ==
    /\ cpc # "done"
    /\ cpc' \in {"alloc", "decompose", "compose", "done"} /\ cpc' # cpc

\* the call is not suspended for ever
SpecRetryFair == SpecRetry /\ WF_cpc(RetryMoves)

(***************************************************************************)
(* C24: the allocate-decompose-retry loop terminates                       *)
(***************************************************************************)
\* the loop goes back in this step
GoesBack == cpc = "decompose" /\ cpc' = "alloc"

\* C24: every call returns; a turn that goes back does so after
\* STATUS_BUFFER_TOO_SMALL and with a larger buf_len, any other result and a
\* failed allocation leave the loop, and the loop goes back no more often
\* than the input has code units
C24_RetryTerminates ==
    /\ <>(cpc = "done")
    /\ [][GoesBack => /\ r1'.d.status = "STATUS_BUFFER_TOO_SMALL"
                      /\ r1'.buf_len > r1.buf_len]_vars
    /\ [][(cpc = "decompose" /\ ~GoesBack)
          => cpc' = "compose" /\ r1'.d.status # "STATUS_BUFFER_TOO_SMALL"]_vars
    /\ [][(cpc = "alloc" /\ cpc' # "decompose")
          => cpc' = "done" /\ r2'.status = "STATUS_NO_MEMORY"]_vars
    /\ [](r1.tries <= Len(arg.src))
    /\ [](cpc = "done" /\ r2.status # "STATUS_NO_MEMORY"
          => r2 = RtlNormalizeString(arg.form, arg.src, Len(arg.src), AmpleLen,
                                     r1.tries + 1))

\* U+FDFA three times under form 13: the loop went back once, from 12 code
\* units to more, and the call returned 54 code units
C24_Witness ==
    /\ cpc = "done" /\ arg.form = 13 /\ arg.src = Rep(65018, 3)
    /\ r1.tries = 1 /\ r1.buf_len > 12
    /\ r2.status = "STATUS_SUCCESS"

(***************************************************************************)
(* C25: buffer[64] of RtlIdnToAscii and RtlIdnToUnicode                    *)
(***************************************************************************)
\* the input of RtlIdnToUnicode is one label that begins with "xn--"
OneAceLabel ==
    /\ op = "RtlIdnToUnicode"
    /\ \A k \in 1..Len(arg.src) : arg.src[k] \notin {0, 46} /\ arg.src[k] < 128
    /\ ~NotAce(arg.src, 0, Len(arg.src))

\* the code units of that label the first loop of the decoder copies
AceBasic ==
    SubSeq(arg.src, 5,
           Min(DelimPastPrefix(LastDelim(arg.src, 0, Len(arg.src)), 0), 4 + 64))

\* how the decoder ends on that label, and what buffer[] holds then
AceDecoded ==
    DecodeLoop(arg.src, Len(arg.src),
               4 + Len(AceBasic) + (IF Len(AceBasic) # 0 THEN 1 ELSE 0),
               128, 72, 0, AceBasic)

\* C25: no call of RtlIdnToAscii stores past buffer[63], whatever the input
\* (a null character inside it, labels of more than 64 code points): the
\* call has failed before; the decoder of RtlIdnToUnicode never has more
\* than 64 code points in buffer[]: it returns
\* STATUS_INVALID_IDN_NORMALIZATION where one more would be inserted
C25_BufferHolds64 ==
    /\ (op = "RtlIdnToAscii" /\ cpc # "start") => r1.status # "BUFFER_OVERRUN"
    /\ (op = "RtlIdnToAscii" /\ cpc = "done") => r2.status # "BUFFER_OVERRUN"
    /\ (OneAceLabel /\ cpc # "start")
          => /\ Len(AceDecoded.buffer) <= 64
             /\ AceDecoded.status # "STATUS_SUCCESS" => r1.status = AceDecoded.status
             /\ r1.status = "STATUS_SUCCESS"
                   => r1.reslen = Len(LabelUnits(AceDecoded.buffer, 0))

\* "xn--", 64 times a, "-tda": the 64 code units fill buffer[] and the call
\* fails where the decoder would insert one more
C25_Witness ==
    /\ OneAceLabel /\ cpc = "sized"
    /\ arg.src = <<120, 110, 45, 45>> \o Rep(97, 64) \o <<45, 116, 100, 97>>
    /\ Len(AceDecoded.buffer) = 64
    /\ r1.status = "STATUS_INVALID_IDN_NORMALIZATION"

(***************************************************************************)
(* One call of RtlIdnToNameprepUnicode, load_norm_table( 13 ) included.    *)
(* In SpecFast thread 1 makes the call, with the cache of form 13 empty or *)
(* filled; thread 2 may be in load_norm_table( 13 ) meanwhile.             *)
(***************************************************************************)
\* inputs of 0x20..0x7e only, with and without a final null, and inputs with
\* a null character inside, U+007F, U+00FC
FastInputs ==
    {<<>>, <<65, 97>>, <<97, 0>>, <<32, 126>>, Rep(97, 64),
     <<0, 97>>, <<127>>, <<65, 252>>}

InitFast ==
    /\ \/ CacheLoaded
       \/ /\ norm_tables = [f \in 0..15 |-> NULL]
          /\ views = <<>>
          /\ thr = [t \in Threads |-> IdleThread]
    /\ nls_info = ZeroNlsInfo
    /\ r1 = NoRes /\ r2 = NoRes /\ cpc = "start"
    /\ op = "RtlIdnToNameprepUnicode"
    /\ \E flags \in 0..3, src \in FastInputs :
          arg = [flags |-> flags, src |-> src, dstlen |-> AmpleLen]

\* the call enters load_norm_table( 13, &info )
FastEnter ==
    /\ cpc = "start"
    /\ Call(1, 13)
    /\ cpc' = "load"
    /\ UNCHANGED <<op, arg, r1, r2, nls_info>>

\* another thread enters load_norm_table( 13, &info )
FastOther == Call(2, 13) /\ UNCHANGED clientVars

FastTestSlot == \E t \in {1, 2} : TestSlot(t) /\ UNCHANGED clientVars

FastMapSection ==
    \E t \in {1, 2} : \E blob \in NormBlobs(13) : MapSection(t, blob) /\ UNCHANGED clientVars

FastMapSectionFails == \E t \in {1, 2} : MapSectionFails(t) /\ UNCHANGED clientVars

FastChecksPass == \E t \in {1, 2} : ChecksPass(t) /\ UNCHANGED clientVars

FastChecksFail == \E t \in {1, 2} : ChecksFail(t) /\ UNCHANGED clientVars

FastCompareExchange == \E t \in {1, 2} : CompareExchange(t) /\ UNCHANGED clientVars

FastUnmapOwn == \E t \in {1, 2} : UnmapOwn(t) /\ UNCHANGED clientVars

FastReadSlot == \E t \in {1, 2} : ReadSlot(t) /\ UNCHANGED clientVars

\* load_norm_table has returned: the rest of RtlIdnToNameprepUnicode, heap
\* being the number of allocations RtlAllocateHeap satisfies
FastReturn ==
    /\ cpc = "load" /\ thr[1].pc = "done"
    /\ \E heap \in {0, 1, 3}, junk \in Junks :
          r1' = NameprepLoaded([status |-> thr[1].status, info |-> thr[1].info],
                               arg.flags, arg.dstlen, junk,
                               NameprepFill(arg.src, Len(arg.src), heap,
                                            AsciiRun(arg.src, Len(arg.src), 0)))
    /\ cpc' = "done"
    /\ UNCHANGED <<op, arg, r2, nls_info>> /\ UNCHANGED cacheVars

NextFast ==
    \/ FastEnter
    \/ FastOther
    \/ FastTestSlot
    \/ FastMapSection
    \/ FastMapSectionFails
    \/ FastChecksPass
    \/ FastChecksFail
    \/ FastCompareExchange
    \/ FastUnmapOwn
    \/ FastReadSlot
    \/ FastReturn

SpecFast == InitFast /\ [][NextFast]_vars

(***************************************************************************)
(* C26: input of 0x20..0x7e only                                           *)
(***************************************************************************)
\* src holds code units of 0x20..0x7e only, but for one final null
AsciiOnly ==
    \A k \in 1..Len(arg.src) :
       \/ arg.src[k] >= 32 /\ arg.src[k] <= 126
       \/ k = Len(arg.src) /\ arg.src[k] = 0

\* the call stored its input, or returned its length where dstlen was 0
StoredUnchanged ==
    /\ r1.reslen = Len(arg.src)
    /\ r1.out = IF arg.dstlen # 0 THEN arg.src ELSE <<>>

\* C26 as stated: on such an input the call loads no table (it maps no
\* section and does not return what load_norm_table returns where no table
\* is to be had), and where it succeeds the output is the input
C26_NoTableLoaded ==
    AsciiOnly
    => /\ thr[1].data = NULL
       /\ cpc = "done" => /\ r1.status \notin {"STATUS_OBJECT_NAME_NOT_FOUND",
                                               "STATUS_INVALID_PARAMETER"}
                          /\ r1.status = "STATUS_SUCCESS" => StoredUnchanged

\* C26 amended: on such an input RtlNormalizeString is not called and
\* nothing is allocated, and where the call succeeds the output is the input
\* in content and length; the table of form 13 is loaded first all the same,
\* and what load_norm_table returns where it fails is returned
C26_FastPathCopies ==
    (AsciiOnly /\ cpc = "done")
    => /\ thr[1].calls = 1
       /\ thr[1].status # "STATUS_SUCCESS" => r1.status = thr[1].status
       /\ thr[1].status = "STATUS_SUCCESS" => norm_tables[13] = thr[1].info
       /\ r1.status # "STATUS_NO_MEMORY"
       /\ r1.status = "STATUS_SUCCESS" => StoredUnchanged

\* "Aa" with an empty cache: the call mapped the section of form 13, and
\* stored "Aa"
C26_Witness ==
    /\ cpc = "done" /\ arg.src = <<65, 97>> /\ arg.dstlen # 0
    /\ thr[1].data # NULL /\ norm_tables[13] = thr[1].data
    /\ r1.status = "STATUS_SUCCESS" /\ r1.out = <<65, 97>>

(***************************************************************************)
(* C27: RtlUTF8ToUnicodeN into a destination that is too small             *)
(***************************************************************************)
\* C27: what RtlUTF8ToUnicodeN stored does not end in a high surrogate, and
\* where the destination has fewer bytes than the conversion of the input
\* takes the call returns STATUS_BUFFER_TOO_SMALL
C27_NoLoneHighSurrogate ==
    (op = "RtlUTF8ToUnicodeN" /\ cpc = "done")
    => /\ r2.out # <<>> => ~IS_HIGH_SURROGATE(r2.out[Len(r2.out)])
       /\ arg.dstlen < r1.reslen => r2.status = "STATUS_BUFFER_TOO_SMALL"

\* U+10000 into a destination of one code unit: the call stored the high
\* surrogate and returned STATUS_SUCCESS
C27_Witness ==
    /\ op = "RtlUTF8ToUnicodeN" /\ cpc = "done"
    /\ arg.src = <<240, 144, 128, 128>> /\ arg.dstlen = 2
    /\ r1.reslen = 4
    /\ r2.status = "STATUS_SUCCESS" /\ r2.reslen = 2 /\ r2.out = <<55296>>

(***************************************************************************)
(* C28: pos, w and n of the decoder of RtlIdnToUnicode                     *)
(***************************************************************************)
\* C28: on a label that begins with "xn--" pos, w and n stay within the range
\* of int and no code point above 0x10ffff is stored in buffer[]: the call
\* returns STATUS_INVALID_IDN_NORMALIZATION instead
C28_DecoderInRange ==
    (OneAceLabel /\ cpc # "start")
    => /\ AceDecoded.status # "INTEGER_OVERFLOW"
       /\ r1.status # "INTEGER_OVERFLOW"
       /\ \A k \in 1..Len(AceDecoded.buffer) : AceDecoded.buffer[k] <= 1114111

\* "xn--99999a": the digits make pos 4760385, and n = 0x80 + 4760385 was
\* stored in buffer[0]; the decoder went on to the end of the label
C28_Witness ==
    /\ OneAceLabel /\ cpc = "sized"
    /\ arg.src = <<120, 110, 45, 45>> \o Rep(57, 5) \o <<97>>
    /\ AceDecoded.status = "STATUS_SUCCESS"
    /\ AceDecoded.buffer = <<4760513>>

(***************************************************************************)
(* RtlGetLocaleFileMappingAddress.  The statics cached_ptr and cached_lcid *)
(* are the fields of arg; a view is a record [state, lcid]: a mapping of   *)
(* the locale file NtInitializeNlsFiles has made and the locale id it      *)
(* stored with it; a thread is a record [pc, addr, status, ptr, lcid,      *)
(* calls].  The locale id NtInitializeNlsFiles stores is the system        *)
(* default of the moment, which NtSetDefaultLocale changes.                *)
(***************************************************************************)
\* the locale ids NtInitializeNlsFiles may store: en-US, fr-FR
SystemLcids == {1033, 1036}

MappingIdle ==
    [pc |-> "idle", addr |-> NULL, status |-> "none", ptr |-> NULL, lcid |-> 0,
     calls |-> 0]

InitMapping ==
    /\ op = "RtlGetLocaleFileMappingAddress"
    /\ arg = [cached_ptr |-> NULL, cached_lcid |-> 0]
    /\ r1 = NoRes /\ r2 = NoRes /\ cpc = "idle"
    /\ nls_info = ZeroNlsInfo
    /\ norm_tables = [f \in 0..15 |-> NULL]
    /\ views = <<>>
    /\ thr = [t \in Threads |-> MappingIdle]

\* a thread enters RtlGetLocaleFileMappingAddress: if (!cached_ptr)
MappingCall(t) ==
    /\ thr[t].pc \in {"idle", "done"}
    /\ CallsMade(NThreads) < MaxCalls
    /\ thr' = [thr EXCEPT ![t] =
                  [pc |-> IF arg.cached_ptr = NULL THEN "init" ELSE "ptr",
                   addr |-> NULL, status |-> "none", ptr |-> NULL, lcid |-> 0,
                   calls |-> @.calls + 1]]
    /\ UNCHANGED <<arg, views>>

\* NtInitializeNlsFiles( &addr, &cached_lcid, size ) succeeds: a new view,
\* and the locale id stored in cached_lcid
InitializeNlsFiles(t, lcid) ==
    /\ thr[t].pc = "init"
    /\ views' = Append(views, [state |-> "mapped", lcid |-> lcid])
    /\ arg' = [arg EXCEPT !.cached_lcid = lcid]
    /\ thr' = [thr EXCEPT ![t].pc = "cas", ![t].addr = Len(views) + 1]

\* NtInitializeNlsFiles fails: if (status) return status;
InitializeNlsFilesFails(t) ==
    /\ thr[t].pc = "init"
    /\ thr' = [thr EXCEPT ![t].pc = "done", ![t].status = "STATUS_NO_MEMORY"]
    /\ UNCHANGED <<arg, views>>

\* InterlockedCompareExchangePointer( &cached_ptr, addr, NULL )
MappingExchange(t) ==
    /\ thr[t].pc = "cas"
    /\ IF arg.cached_ptr = NULL
       THEN /\ arg' = [arg EXCEPT !.cached_ptr = thr[t].addr]
            /\ thr' = [thr EXCEPT ![t].pc = "ptr"]
       ELSE /\ UNCHANGED arg
            /\ thr' = [thr EXCEPT ![t].pc = "unmap"]
    /\ UNCHANGED views

\* the exchange found cached_ptr set: NtUnmapViewOfSection( ..., addr )
MappingUnmap(t) ==
    /\ thr[t].pc = "unmap"
    /\ views' = [views EXCEPT ![thr[t].addr].state = "unmapped"]
    /\ thr' = [thr EXCEPT ![t].pc = "ptr"]
    /\ UNCHANGED arg

\* *ptr = cached_ptr;
MappingReadPtr(t) ==
    /\ thr[t].pc = "ptr"
    /\ thr' = [thr EXCEPT ![t].pc = "lcid", ![t].ptr = arg.cached_ptr]
    /\ UNCHANGED <<arg, views>>

\* *lcid = cached_lcid; return STATUS_SUCCESS;
MappingReadLcid(t) ==
    /\ thr[t].pc = "lcid"
    /\ thr' = [thr EXCEPT ![t].pc = "done", ![t].lcid = arg.cached_lcid,
                          ![t].status = "STATUS_SUCCESS"]
    /\ UNCHANGED <<arg, views>>

mappingFrame == <<op, r1, r2, cpc, nls_info, norm_tables>>

NextMapping ==
    \/ \E t \in Threads : MappingCall(t) /\ UNCHANGED mappingFrame
    \/ \E t \in Threads, lcid \in SystemLcids :
          InitializeNlsFiles(t, lcid) /\ UNCHANGED mappingFrame
    \/ \E t \in Threads : InitializeNlsFilesFails(t) /\ UNCHANGED mappingFrame
    \/ \E t \in Threads : MappingExchange(t) /\ UNCHANGED mappingFrame
    \/ \E t \in Threads : MappingUnmap(t) /\ UNCHANGED mappingFrame
    \/ \E t \in Threads : MappingReadPtr(t) /\ UNCHANGED mappingFrame
    \/ \E t \in Threads : MappingReadLcid(t) /\ UNCHANGED mappingFrame

SpecMapping == InitMapping /\ [][NextMapping]_vars

(***************************************************************************)
(* C29: concurrent first calls of RtlGetLocaleFileMappingAddress           *)
(***************************************************************************)
\* the threads whose call has returned STATUS_SUCCESS
MappingReturned == {t \in Threads : thr[t].pc = "done" /\ thr[t].status = "STATUS_SUCCESS"}

\* the threads whose exchange found cached_ptr set, after their unmap
MappingLosers ==
    {t \in Threads : /\ thr[t].pc \in {"ptr", "lcid", "done"}
                     /\ thr[t].addr # NULL
                     /\ thr[t].addr # arg.cached_ptr}

\* the pointer is published once, and the losers have unmapped their views
MappingPublishedOnce ==
    /\ [][arg.cached_ptr # NULL => arg'.cached_ptr = arg.cached_ptr]_vars
    /\ [](\A t \in MappingLosers : views[thr[t].addr].state = "unmapped")
    /\ [](arg.cached_ptr # NULL => views[arg.cached_ptr].state = "mapped")
    /\ [](\A t \in MappingReturned : thr[t].ptr = arg.cached_ptr)

\* C29: the pointer is published once and the losers unmap their views; a
\* call that returns STATUS_SUCCESS returns the published pointer and the
\* locale id stored with the published view, and once the pointer is
\* published cached_lcid is that locale id
C29_PublishedPair ==
    /\ MappingPublishedOnce
    /\ [](\A t \in MappingReturned : thr[t].lcid = views[thr[t].ptr].lcid)
    /\ [](arg.cached_ptr # NULL => arg.cached_lcid = views[arg.cached_ptr].lcid)

\* a call has returned the published view, mapped under one locale id, with
\* the locale id the loser of the exchange stored after it, and the loser has
\* unmapped its view
C29_Witness ==
    \E t \in MappingReturned, u \in MappingLosers :
       /\ thr[t].addr = arg.cached_ptr /\ thr[t].ptr = arg.cached_ptr
       /\ views[thr[t].ptr].lcid = 1033
       /\ thr[t].lcid = 1036
       /\ views[thr[u].addr] = [state |-> "unmapped", lcid |-> 1036]

=============================================================================
